---- MODULE Spec2Model ----
(***************************************************************************)
(* A model of the YarnDB datastore core (YAMLDatastore and Transaction):   *)
(* the record map, the shard-file set, the secondary indexes, the merge    *)
(* cache, the dirty flag, the transaction slot with its overlay, and the   *)
(* shard files on disk.                                                    *)
(*                                                                         *)
(* Go values are modelled as tagged records (nil, string, mapping);        *)
(* Go maps as TLA+ functions whose DOMAIN is the set of keys present.      *)
(* A record id "a_1" is the sequence <<"a", "1">> of its "_"-separated     *)
(* segments and a field path "address.city" the sequence of its            *)
(* "."-separated segments, so that strings.Split is sequence indexing.     *)
(***************************************************************************)
EXTENDS Integers, Sequences, FiniteSets, TLC

VARIABLES
    data,       \* ds.data: recordID -> document
    files,      \* ds.files: the set of tracked shard-file paths
    indexes,    \* ds.indexes: path -> (value -> recordID)
    cache,      \* ds.cache: "merged" -> merged view, or empty
    dirty,      \* ds.dirty
    txActive,   \* ds.txActive
    txData,     \* ds.txData: the overlay map the store references (see ovData)
    txFiles,    \* ds.txFiles: the file-set map the store references
    txMu,       \* ds.txMu: TRUE while locked
    ovData,     \* the overlay maps on the heap: 0 is the store's own, h is tx.data of handle h
    ovFiles,    \* the overlay file sets on the heap, as ovData
    hstate,     \* per handle: "none" (not created), "opening" (slot reserved, BeginTransaction
                \* not yet returned), "open", "closing" (Commit or Rollback called),
                \* "committed", "rolledback"
    disk,       \* the data directory: shard-file path -> (recordID -> document)
    crashed,    \* the process died of a runtime panic
    last,       \* the last call made: its name and arguments
    ret,        \* what the last call returned
    txPre,      \* history: the committed state when the open transaction began
    again,      \* history: the last call repeated the call before it, arguments included
    wrote,      \* history: the shard files the last call passed to os.WriteFile
    loader,     \* ConcurrentRead in progress: the loader's step, its workers, errCh and wg
    mu,         \* ds.mu: [w |-> thread holding the write lock or 0, r |-> set of threads holding read locks,
                \*         p |-> set of threads waiting in Lock(), which hold off new readers]
    pc,         \* per thread: the step of the call it is executing, "idle" between calls
    th,         \* per thread: the locals of the call it is executing
    saveMu,     \* ds.saveMu: the thread holding it, or 0
    cacheLock,  \* ds.cacheLock: as mu
    calls       \* the number of calls made so far

vars == <<data, files, indexes, cache, dirty, txActive, txData, txFiles, txMu,
          ovData, ovFiles, hstate, disk, crashed, last, ret, txPre, again, wrote, loader,
          mu, pc, th, saveMu, cacheLock, calls>>

storeVars == <<data, files, indexes, cache, dirty>>
txVars == <<txActive, txData, txFiles, txMu, ovData, ovFiles, hstate>>
concVars == <<mu, pc, th, saveMu, cacheLock>>

----------------------------------------------------------------------------
(* Bounds of the model *)

\* the number of transaction handles BeginTransaction can return in one run
MaxTx == 2

\* the number of calls made in one run
MaxCalls == 4

\* the number of calls made in one run of the interleaved specification
MaxConcCalls == 5

\* the number of concurrent callers of the interleaved specification
NumThreads == 2

Handles == 1..MaxTx
Threads == 1..NumThreads

----------------------------------------------------------------------------
(* Values *)

Nil == [k |-> "nil"]
StrV(s) == [k |-> "str", s |-> s]
MapV(f) == [k |-> "map", m |-> f]
SeqV(e) == [k |-> "seq", e |-> e]

DocAnn == MapV([name |-> StrV("Ann"), dept |-> StrV("eng")])
DocBo == MapV([name |-> StrV("Bo"), dept |-> StrV("ops")])

\* the documents callers pass; Nil is Go's nil (YAML null)
Docs == {Nil, DocAnn, DocBo}

\* record ids "a_1" and "b_1"
Ids == {<<"a", "1">>, <<"b", "1">>}

\* shard hints callers pass
FileIDs == {"a", "default"}

\* the field paths indexed and queried: "dept"
Paths == {<<"dept">>}

\* the values queries ask for
QueryValues == {"eng", "ops"}

EmptyMap == <<>>

NoId == <<>>
NoPath == <<>>

----------------------------------------------------------------------------
(* Pure helpers *)

\* filepath.Join(ds.dir, "records_"+fileID+".yaml")
ShardPath(fileID) == "records_" \o fileID \o ".yaml"

DefaultPath == ShardPath("default")

\* m with key k set to v (Go: m[k] = v)
Put(m, k, v) == [x \in DOMAIN m \cup {k} |-> IF x = k THEN v ELSE m[x]]

\* m without key k (Go: delete(m, k))
Del(m, k) == [x \in DOMAIN m \ {k} |-> m[x]]

\* Go's m[k] on a map of interface{}: nil when the key is missing
Lookup(m, k) == IF k \in DOMAIN m THEN m[k] ELSE Nil

\* mutant of getNestedValue: a node that is not a mapping ends the descent and
\* is returned as the value
RECURSIVE getNestedValueLoose(_, _)
getNestedValueLoose(current, keys) ==
    IF keys = <<>> THEN [ok |-> TRUE, val |-> current]
    ELSE IF current.k # "map" THEN [ok |-> TRUE, val |-> current]
    ELSE IF Head(keys) \in DOMAIN current.m
         THEN getNestedValueLoose(current.m[Head(keys)], Tail(keys))
         ELSE [ok |-> FALSE, val |-> Nil]

\* keys is strings.Split(key, "."): one loop iteration per segment
RECURSIVE getNestedValue(_, _)
getNestedValue(current, keys) ==
    IF keys = <<>> THEN [ok |-> TRUE, val |-> current]
    ELSE IF current.k = "map" /\ Head(keys) \in DOMAIN current.m
         THEN getNestedValue(current.m[Head(keys)], Tail(keys))
         ELSE [ok |-> FALSE, val |-> Nil]

\* fmt.Sprintf("%v", val) for the scalar values of the model
Format(val) ==
    CASE val.k = "str" -> val.s
      [] val.k = "nil" -> "<nil>"
      [] OTHER -> "map[...]"   \* a mapping renders as "map[k:v ...]", never a query value here

\* the permutations of a finite set, as sequences: the orders a Go range over a map can take
Orders(S) ==
    {o \in [1..Cardinality(S) -> S] : \A i, j \in 1..Cardinality(S) : o[i] = o[j] => i = j}

----------------------------------------------------------------------------
(* Index maintenance *)

\* the loop "for val, id := range index { if id == recordID { delete(index, val) } }"
RemoveId(index, recordID) ==
    [v \in {x \in DOMAIN index : index[x] # recordID} |-> index[v]]

\* mutant of UpdateIndex: the value is inserted only when the clean-up loop
\* found no entry of the record
UpdateIndexSkipsKnown(index, recordID, doc, key) ==
    LET cleaned == RemoveId(index, recordID)
        g == getNestedValue(doc, key)
    IN  IF g.ok /\ cleaned = index THEN Put(cleaned, g.val, recordID) ELSE cleaned

\* the body of updateIndexes's loop for the index on path key
UpdateIndex(index, recordID, doc, key) ==
    LET cleaned == RemoveId(index, recordID)
        g == getNestedValue(doc, key)
    IN  IF g.ok THEN Put(cleaned, g.val, recordID) ELSE cleaned

updateIndexes(idx, recordID, doc) ==
    [key \in DOMAIN idx |-> UpdateIndex(idx[key], recordID, doc, key)]

\* the index-removal loop of Delete
removeFromIndexes(idx, recordID) ==
    [key \in DOMAIN idx |-> RemoveId(idx[key], recordID)]

\* the indexes CreateIndex can build on path key from records d: when several
\* records hold one value the last one ranged over wins, and the range order is arbitrary
BuiltIndexes(d, key) ==
    LET holders(v) == {id \in DOMAIN d : getNestedValue(d[id], key) = [ok |-> TRUE, val |-> v]}
        vals == {getNestedValue(d[id], key).val : id \in {i \in DOMAIN d : getNestedValue(d[i], key).ok}}
    IN  {f \in [vals -> DOMAIN d] : \A v \in vals : f[v] \in holders(v)}

----------------------------------------------------------------------------
(* Reads *)

\* the overlay the store consults: the map ds.txData references
Overlay == ovData[txData]

\* "ds.txActive && ds.txData[id] == nil": true of a staged tombstone and of an unstaged id alike
SkippedInTx(id) == txActive /\ Lookup(Overlay, id) = Nil

\* the staged replacement of id when a transaction is active and stages one, else d
Effective(id, d) ==
    IF txActive /\ id \in DOMAIN Overlay /\ Overlay[id] # Nil THEN Overlay[id] ELSE d

\* Query through the index on key (the branch taken when the index exists)
QueryIndex(key, value) ==
    LET index == indexes[key]
        hits == {id \in Ids : \E val \in DOMAIN index :
                    /\ index[val] = id
                    /\ Format(val) = value
                    /\ ~SkippedInTx(id)}
    IN  [id \in hits |-> Effective(id, Lookup(data, id))]

\* Query by full scan (the branch taken when no index exists)
QueryScan(key, value) ==
    LET hits == {id \in DOMAIN data :
                    /\ ~SkippedInTx(id)
                    /\ getNestedValue(Effective(id, data[id]), key).ok
                    /\ Format(getNestedValue(Effective(id, data[id]), key).val) = value}
    IN  [id \in hits |-> Effective(id, data[id])]

QueryResult(key, value) ==
    IF key \in DOMAIN indexes THEN QueryIndex(key, value) ELSE QueryScan(key, value)

\* mutant of GetResult: Get that never consults the overlay
GetCommittedOnly(recordID) == Lookup(data, recordID)

\* Get: the staged entry when a transaction is active and stages id, else the
\* committed document; nil when there is none
GetResult(recordID) ==
    IF txActive /\ recordID \in DOMAIN Overlay THEN Overlay[recordID]
    ELSE Lookup(data, recordID)

\* the view Merge computes when the cache holds none
MergedView ==
    [id \in {i \in DOMAIN data : ~SkippedInTx(i)} |-> Effective(id, data[id])]

----------------------------------------------------------------------------
(* The committed state and the effect of the store-level writes on it *)

Committed ==
    [data |-> data, files |-> files, indexes |-> indexes, dirty |-> dirty, cache |-> cache]

Install(s) ==
    /\ data' = s.data
    /\ files' = s.files
    /\ indexes' = s.indexes
    /\ dirty' = s.dirty
    /\ cache' = s.cache

\* Set outside a transaction
StoreSet(s, recordID, doc, fileID) ==
    [data |-> Put(s.data, recordID, doc),
     files |-> s.files \cup {ShardPath(fileID)},
     indexes |-> updateIndexes(s.indexes, recordID, doc),
     dirty |-> TRUE,
     cache |-> EmptyMap]

\* Delete of a present record outside a transaction
StoreDelete(s, recordID) ==
    [data |-> Del(s.data, recordID),
     files |-> s.files,
     indexes |-> removeFromIndexes(s.indexes, recordID),
     dirty |-> TRUE,
     cache |-> EmptyMap]

\* one iteration of Commit's loop over tx.data
CommitEntry(s, id, d) ==
    IF d = Nil
    THEN [s EXCEPT !.data = Del(s.data, id)]
    ELSE [s EXCEPT !.data = Put(s.data, id, d),
                   !.indexes = updateIndexes(s.indexes, id, d)]

\* Commit's loop over tx.data, ranging in the given order from position i on
RECURSIVE CommitLoop(_, _, _, _)
CommitLoop(s, ov, order, i) ==
    IF i > Len(order) THEN s
    ELSE CommitLoop(CommitEntry(s, order[i], ov[order[i]]), ov, order, i + 1)

\* the committed state Commit leaves, for one range order
CommitResult(s, ov, ovf, order) ==
    LET t == CommitLoop(s, ov, order, 1)
    IN  [t EXCEPT !.files = t.files \cup ovf, !.dirty = TRUE, !.cache = EmptyMap]

----------------------------------------------------------------------------
(* The last call and its result *)

Call(op, id, doc, fileID, key, value, h) ==
    [op |-> op, id |-> id, doc |-> doc, fileID |-> fileID, key |-> key, value |-> value, h |-> h]

NoCall == Call("none", NoId, Nil, "", NoPath, "", 0)

NoSnapshot == [k |-> "none"]

\* the loader when no load is in progress: ConcurrentRead has returned
LoaderIdle == [pc |-> "idle", paths |-> <<>>, i |-> 0, w |-> EmptyMap, failed |-> {}, errCh |-> 0,
               wg |-> 0, result |-> "ok"]

\* the locals of a call in flight: the call, the handle it works on, the range
\* order of Commit's loop and its position, Save's copies, Merge's view
NoLocals == [c |-> NoCall, order |-> <<>>, i |-> 0, dataCopy |-> EmptyMap, filesCopy |-> {}, merged |-> EmptyMap]

\* the handle BeginTransaction returns next
NextHandle == CHOOSE h \in Handles : hstate[h] = "none" /\ \A g \in Handles : g < h => hstate[g] # "none"

\* the handles that hold the transaction slot: created and not yet committed or rolled back
OpenHandles == {h \in Handles : hstate[h] \in {"opening", "open", "closing"}}

----------------------------------------------------------------------------
(* Persistence: YAML, the shard files Save writes, and what a load reads back *)

\* yaml.Marshal of a document: a node tree
RECURSIVE Marshal(_)
Marshal(v) ==
    CASE v.k = "nil" -> [y |-> "scalar", tag |-> "!!null", text |-> "null"]
      [] v.k = "str" -> [y |-> "scalar", tag |-> "!!str", text |-> v.s]
      [] OTHER -> [y |-> "mapping", kv |-> [key \in DOMAIN v.m |-> Marshal(v.m[key])]]

\* yaml.Unmarshal of a node tree into interface{}
RECURSIVE Unmarshal(_)
Unmarshal(n) ==
    IF n.y = "scalar"
    THEN IF n.tag = "!!null" THEN Nil ELSE StrV(n.text)
    ELSE MapV([key \in DOMAIN n.kv |-> Unmarshal(n.kv[key])])

\* a shard file: yaml.Marshal(records) of a recordID -> document map
MarshalFile(records) == [id \in DOMAIN records |-> Marshal(records[id])]

\* yaml.Unmarshal(data, &fileData)
UnmarshalFile(text) == [id \in DOMAIN text |-> Unmarshal(text[id])]

\* the file Save groups a record under: the shard of its id prefix when that
\* file is tracked, else the default shard
SaveGroupPath(id, fs) ==
    IF ShardPath(id[1]) \in fs THEN ShardPath(id[1]) ELSE DefaultPath

\* fileData[filePath][id] = data on a nil inner map: the default shard is not tracked
SavePanics(d, fs) == \E id \in DOMAIN d : SaveGroupPath(id, fs) \notin fs

SaveGroups(d, fs) ==
    [path \in fs |-> [id \in {i \in DOMAIN d : SaveGroupPath(i, fs) = path} |-> d[id]]]

\* the files Save writes: the non-empty groups
SaveTargets(d, fs) == {path \in fs : DOMAIN SaveGroups(d, fs)[path] # {}}

\* the directory after os.WriteFile of the groups of the files in W
WriteFiles(dk, groups, W) ==
    [path \in DOMAIN dk \cup W |-> IF path \in W THEN MarshalFile(groups[path]) ELSE dk[path]]

\* readFile's merges applied in the given order of files, from position i on
RECURSIVE LoadFiles(_, _, _, _)
LoadFiles(d, dk, order, i) ==
    IF i > Len(order) THEN d
    ELSE LET fileData == UnmarshalFile(dk[order[i]])
         IN  LoadFiles([id \in DOMAIN d \cup DOMAIN fileData |->
                           IF id \in DOMAIN fileData THEN fileData[id] ELSE d[id]],
                       dk, order, i + 1)

\* the record maps ConcurrentRead can produce from directory dk: the workers
\* merge under ds.mu in the order they finish parsing
Reloads(dk) == {LoadFiles(EmptyMap, dk, order, 1) : order \in Orders(DOMAIN dk)}

----------------------------------------------------------------------------
(* The calls, each made by one caller and run to its return *)

Snapshot == [data |-> data, files |-> files, indexes |-> indexes, dirty |-> dirty]

Idle == \A t \in Threads : pc[t] = "idle"

\* a call can be made: the process is alive and no interleaved call is in flight
Callable == ~crashed /\ Idle /\ calls < MaxCalls

Called(c) ==
    /\ last' = c
    /\ calls' = calls + 1
    /\ again' = (c = last)
    /\ UNCHANGED loader
    /\ IF c.op = "Save" THEN TRUE ELSE wrote' = {}

Set(recordID, doc, fileID) ==
    /\ Callable
    /\ Called(Call("Set", recordID, doc, fileID, NoPath, "", 0))
    /\ ret' = "ok"
    /\ IF txActive
       THEN /\ ovData' = [ovData EXCEPT ![txData] = Put(@, recordID, doc)]
            /\ ovFiles' = [ovFiles EXCEPT ![txFiles] = @ \cup {ShardPath(fileID)}]
            /\ UNCHANGED <<storeVars, txPre>>
       ELSE /\ Install(StoreSet(Committed, recordID, doc, fileID))
            /\ txPre' = NoSnapshot
            /\ UNCHANGED <<ovData, ovFiles>>
    /\ UNCHANGED <<txActive, txData, txFiles, txMu, hstate, disk, crashed, concVars>>

Get(recordID) ==
    /\ Callable
    /\ Called(Call("Get", recordID, Nil, "", NoPath, "", 0))
    /\ ret' = GetResult(recordID)
    /\ UNCHANGED <<storeVars, txVars, disk, crashed, txPre, concVars>>

Delete(recordID) ==
    /\ Callable
    /\ Called(Call("Delete", recordID, Nil, "", NoPath, "", 0))
    /\ IF txActive
       THEN /\ ovData' = [ovData EXCEPT ![txData] = Put(@, recordID, Nil)]
            /\ ret' = "ok"
            /\ UNCHANGED <<storeVars, txPre>>
       ELSE IF recordID \notin DOMAIN data
       THEN /\ ret' = "NotFound"
            /\ UNCHANGED <<storeVars, ovData, txPre>>
       ELSE /\ Install(StoreDelete(Committed, recordID))
            /\ ret' = "ok"
            /\ txPre' = NoSnapshot
            /\ UNCHANGED ovData
    /\ UNCHANGED <<txActive, txData, txFiles, txMu, ovFiles, hstate, disk, crashed, concVars>>

Query(key, value) ==
    /\ Callable
    /\ Called(Call("Query", NoId, Nil, "", key, value, 0))
    /\ ret' = QueryResult(key, value)
    /\ UNCHANGED <<storeVars, txVars, disk, crashed, txPre, concVars>>

\* mutant of CreateIndex: the scan ranges over the records as an open
\* transaction would leave them
CreateIndexFromOverlay(key) ==
    /\ Callable
    /\ Called(Call("CreateIndex", NoId, Nil, "", key, "", 0))
    /\ IF key \in DOMAIN indexes
       THEN /\ ret' = "Conflict"
            /\ UNCHANGED <<indexes, txPre>>
       ELSE /\ LET staged == IF txActive THEN Overlay ELSE EmptyMap
                   view == [id \in DOMAIN data \cup DOMAIN staged |->
                               IF id \in DOMAIN staged THEN staged[id] ELSE data[id]]
               IN  \E index \in BuiltIndexes(view, key) : indexes' = Put(indexes, key, index)
            /\ ret' = "ok"
            /\ txPre' = NoSnapshot
    /\ UNCHANGED <<data, files, cache, dirty, txVars, disk, crashed, concVars>>

CreateIndex(key) ==
    /\ Callable
    /\ Called(Call("CreateIndex", NoId, Nil, "", key, "", 0))
    /\ IF key \in DOMAIN indexes
       THEN /\ ret' = "Conflict"
            /\ UNCHANGED <<indexes, txPre>>
       ELSE /\ \E index \in BuiltIndexes(data, key) : indexes' = Put(indexes, key, index)
            /\ ret' = "ok"
            /\ txPre' = NoSnapshot
    /\ UNCHANGED <<data, files, cache, dirty, txVars, disk, crashed, concVars>>

\* mutant of BeginTransaction: the handle is given the overlay the store
\* references instead of a fresh one
BeginReusesOverlay ==
    /\ Callable
    /\ ~txMu /\ ~txActive
    /\ \E h \in Handles : hstate[h] = "none"
    /\ Called(Call("BeginTransaction", NoId, Nil, "", NoPath, "", NextHandle))
    /\ ret' = "ok"
    /\ txMu' = TRUE
    /\ txActive' = TRUE
    /\ hstate' = [hstate EXCEPT ![NextHandle] = "open"]
    /\ ovData' = [ovData EXCEPT ![NextHandle] = ovData[txData]]
    /\ ovFiles' = [ovFiles EXCEPT ![NextHandle] = ovFiles[txFiles]]
    /\ txData' = NextHandle
    /\ txFiles' = NextHandle
    /\ txPre' = Snapshot
    /\ UNCHANGED <<storeVars, disk, crashed, concVars>>

\* ds.txMu.Lock() does not return while the mutex is held, and the open
\* transaction holds it from its BeginTransaction to its Commit or Rollback
BeginTransaction ==
    /\ Callable
    /\ IF txMu
       THEN /\ Called(Call("BeginTransaction", NoId, Nil, "", NoPath, "", 0))
            /\ ret' = "blocked"
            /\ UNCHANGED <<txVars, txPre>>
       ELSE IF txActive
       THEN /\ Called(Call("BeginTransaction", NoId, Nil, "", NoPath, "", 0))
            /\ ret' = "Conflict"
            /\ UNCHANGED <<txVars, txPre>>
       ELSE /\ \E h \in Handles : hstate[h] = "none"
            /\ Called(Call("BeginTransaction", NoId, Nil, "", NoPath, "", NextHandle))
            /\ ret' = "ok"
            /\ txMu' = TRUE
            /\ txActive' = TRUE
            /\ hstate' = [hstate EXCEPT ![NextHandle] = "open"]
            /\ ovData' = [ovData EXCEPT ![NextHandle] = EmptyMap]
            /\ ovFiles' = [ovFiles EXCEPT ![NextHandle] = {}]
            /\ txData' = NextHandle
            /\ txFiles' = NextHandle
            /\ txPre' = Snapshot
    /\ UNCHANGED <<storeVars, disk, crashed, concVars>>

\* mutant of TxSet: staging marks the store dirty
TxSetMarksDirty(h, recordID, doc, fileID) ==
    /\ Callable
    /\ hstate[h] = "open"
    /\ Called(Call("tx.Set", recordID, doc, fileID, NoPath, "", h))
    /\ ret' = "ok"
    /\ ovData' = [ovData EXCEPT ![h] = Put(@, recordID, doc)]
    /\ ovFiles' = [ovFiles EXCEPT ![h] = @ \cup {ShardPath(fileID)}]
    /\ dirty' = TRUE
    /\ UNCHANGED <<data, files, indexes, cache, txActive, txData, txFiles, txMu, hstate, disk,
                   crashed, txPre, concVars>>

TxSet(h, recordID, doc, fileID) ==
    /\ Callable
    /\ hstate[h] = "open"
    /\ Called(Call("tx.Set", recordID, doc, fileID, NoPath, "", h))
    /\ ret' = "ok"
    /\ ovData' = [ovData EXCEPT ![h] = Put(@, recordID, doc)]
    /\ ovFiles' = [ovFiles EXCEPT ![h] = @ \cup {ShardPath(fileID)}]
    /\ UNCHANGED <<storeVars, txActive, txData, txFiles, txMu, hstate, disk, crashed, txPre, concVars>>

TxDelete(h, recordID) ==
    /\ Callable
    /\ hstate[h] = "open"
    /\ Called(Call("tx.Delete", recordID, Nil, "", NoPath, "", h))
    /\ ret' = "ok"
    /\ ovData' = [ovData EXCEPT ![h] = Put(@, recordID, Nil)]
    /\ UNCHANGED <<storeVars, txActive, txData, txFiles, txMu, ovFiles, hstate, disk, crashed, txPre, concVars>>

Commit(h) ==
    /\ Callable
    /\ hstate[h] = "open"
    /\ Called(Call("Commit", NoId, Nil, "", NoPath, "", h))
    /\ ret' = "ok"
    /\ \E order \in Orders(DOMAIN ovData[h]) :
           Install(CommitResult(Committed, ovData[h], ovFiles[h], order))
    /\ txActive' = FALSE
    /\ txMu' = FALSE
    /\ hstate' = [hstate EXCEPT ![h] = "committed"]
    /\ txPre' = NoSnapshot
    /\ UNCHANGED <<txData, txFiles, ovData, ovFiles, disk, crashed, concVars>>

\* mutant of Rollback: the slot is released but ds.txActive is left set
RollbackKeepsActive(h) ==
    /\ Callable
    /\ hstate[h] = "open"
    /\ Called(Call("Rollback", NoId, Nil, "", NoPath, "", h))
    /\ ret' = "ok"
    /\ txMu' = FALSE
    /\ hstate' = [hstate EXCEPT ![h] = "rolledback"]
    /\ UNCHANGED <<storeVars, txActive, txData, txFiles, ovData, ovFiles, disk, crashed, txPre, concVars>>

Rollback(h) ==
    /\ Callable
    /\ hstate[h] = "open"
    /\ Called(Call("Rollback", NoId, Nil, "", NoPath, "", h))
    /\ ret' = "ok"
    /\ txMu' = FALSE
    /\ txActive' = FALSE
    /\ txData' = 0
    /\ txFiles' = 0
    /\ ovData' = [ovData EXCEPT ![0] = EmptyMap]
    /\ ovFiles' = [ovFiles EXCEPT ![0] = {}]
    /\ hstate' = [hstate EXCEPT ![h] = "rolledback"]
    /\ UNCHANGED <<storeVars, disk, crashed, txPre, concVars>>

\* Commit on a handle that was already committed or rolled back: the body runs
\* as on an open handle, and the deferred ds.txMu.Unlock() is a fatal error
\* ("sync: unlock of unlocked mutex") when no transaction holds the mutex
CommitClosed(h) ==
    /\ Callable
    /\ hstate[h] \in {"committed", "rolledback"}
    /\ Called(Call("Commit", NoId, Nil, "", NoPath, "", h))
    /\ \E order \in Orders(DOMAIN ovData[h]) :
           Install(CommitResult(Committed, ovData[h], ovFiles[h], order))
    /\ txActive' = FALSE
    /\ txMu' = FALSE
    /\ IF txMu
       THEN ret' = "ok" /\ UNCHANGED crashed
       ELSE ret' = "panic" /\ crashed' = TRUE
    /\ txPre' = NoSnapshot
    /\ UNCHANGED <<txData, txFiles, ovData, ovFiles, hstate, disk, concVars>>

\* Rollback on a handle that was already committed or rolled back: its first
\* statement ds.txMu.Unlock() is a fatal error when no transaction holds the
\* mutex, and otherwise the body runs as on an open handle
RollbackClosed(h) ==
    /\ Callable
    /\ hstate[h] \in {"committed", "rolledback"}
    /\ Called(Call("Rollback", NoId, Nil, "", NoPath, "", h))
    /\ IF txMu
       THEN /\ ret' = "ok"
            /\ txMu' = FALSE
            /\ txActive' = FALSE
            /\ txData' = 0
            /\ txFiles' = 0
            /\ ovData' = [ovData EXCEPT ![0] = EmptyMap]
            /\ ovFiles' = [ovFiles EXCEPT ![0] = {}]
            /\ UNCHANGED crashed
       ELSE /\ ret' = "panic"
            /\ crashed' = TRUE
            /\ UNCHANGED <<txMu, txActive, txData, txFiles, ovData, ovFiles>>
    /\ UNCHANGED <<storeVars, hstate, disk, txPre, concVars>>

Merge ==
    /\ Callable
    /\ Called(Call("Merge", NoId, Nil, "", NoPath, "", 0))
    /\ IF "merged" \in DOMAIN cache
       THEN /\ ret' = cache["merged"]
            /\ UNCHANGED cache
       ELSE /\ ret' = MergedView
            /\ cache' = Put(cache, "merged", MergedView)
    /\ UNCHANGED <<data, files, indexes, dirty, txVars, disk, crashed, txPre, concVars>>

\* mutant of Save: no check of the dirty flag
SaveIgnoresDirty ==
    /\ Callable
    /\ Called(Call("Save", NoId, Nil, "", NoPath, "", 0))
    /\ IF SavePanics(data, files)
       THEN /\ ret' = "panic"
            /\ crashed' = TRUE
            /\ wrote' = {}
            /\ UNCHANGED <<dirty, disk, txPre>>
       ELSE \E W \in SUBSET SaveTargets(data, files) :
            /\ disk' = WriteFiles(disk, SaveGroups(data, files), W)
            /\ wrote' = W
            /\ IF W = SaveTargets(data, files)
               THEN /\ ret' = "ok"
                    /\ dirty' = FALSE
                    /\ txPre' = NoSnapshot
               ELSE /\ ret' = "IOError"
                    /\ UNCHANGED <<dirty, txPre>>
            /\ UNCHANGED crashed
    /\ UNCHANGED <<data, files, indexes, cache, txVars, concVars>>

\* mutant of Save: the dirty flag is cleared when a write has failed, too
SaveClearsOnError ==
    /\ Callable
    /\ Called(Call("Save", NoId, Nil, "", NoPath, "", 0))
    /\ IF ~dirty
       THEN /\ ret' = "ok"
            /\ wrote' = {}
            /\ UNCHANGED <<dirty, disk, crashed, txPre>>
       ELSE IF SavePanics(data, files)
       THEN /\ ret' = "panic"
            /\ crashed' = TRUE
            /\ wrote' = {}
            /\ UNCHANGED <<dirty, disk, txPre>>
       ELSE \E W \in SUBSET SaveTargets(data, files) :
            /\ disk' = WriteFiles(disk, SaveGroups(data, files), W)
            /\ wrote' = W
            /\ ret' = IF W = SaveTargets(data, files) THEN "ok" ELSE "IOError"
            /\ dirty' = FALSE
            /\ txPre' = NoSnapshot
            /\ UNCHANGED crashed
    /\ UNCHANGED <<data, files, indexes, cache, txVars, concVars>>

\* Save: os.WriteFile can fail on any file, and the files are written in the
\* arbitrary order of a range over a map; W is the set written before the failure
Save ==
    /\ Callable
    /\ Called(Call("Save", NoId, Nil, "", NoPath, "", 0))
    /\ IF ~dirty
       THEN /\ ret' = "ok"
            /\ wrote' = {}
            /\ UNCHANGED <<dirty, disk, crashed, txPre>>
       ELSE IF SavePanics(data, files)
       THEN /\ ret' = "panic"
            /\ crashed' = TRUE
            /\ wrote' = {}
            /\ UNCHANGED <<dirty, disk, txPre>>
       ELSE \E W \in SUBSET SaveTargets(data, files) :
            /\ disk' = WriteFiles(disk, SaveGroups(data, files), W)
            /\ wrote' = W
            /\ IF W = SaveTargets(data, files)
               THEN /\ ret' = "ok"
                    /\ dirty' = FALSE
                    /\ txPre' = NoSnapshot
               ELSE /\ ret' = "IOError"
                    /\ UNCHANGED <<dirty, txPre>>
            /\ UNCHANGED crashed
    /\ UNCHANGED <<data, files, indexes, cache, txVars, concVars>>

\* the process ends and NewYAMLDatastore runs again on the same directory
Restart ==
    /\ Idle /\ calls < MaxCalls
    /\ Called(Call("NewYAMLDatastore", NoId, Nil, "", NoPath, "", 0))
    /\ ret' = "ok"
    /\ data' \in Reloads(disk)
    /\ files' = DOMAIN disk
    /\ indexes' = EmptyMap
    /\ cache' = EmptyMap
    /\ dirty' = FALSE
    /\ txActive' = FALSE
    /\ txData' = 0
    /\ txFiles' = 0
    /\ txMu' = FALSE
    /\ ovData' = [h \in 0..MaxTx |-> EmptyMap]
    /\ ovFiles' = [h \in 0..MaxTx |-> {}]
    /\ hstate' = [h \in Handles |-> "none"]
    /\ crashed' = FALSE
    /\ txPre' = NoSnapshot
    /\ UNCHANGED <<disk, concVars>>

\* the data directories the process is started on: an empty one, one shard
\* file, and a shard file beside the default shard file
InitDirs ==
    {EmptyMap,
     [path \in {ShardPath("a")} |-> MarshalFile([id \in {<<"a", "1">>} |-> DocAnn])],
     [path \in {ShardPath("a"), DefaultPath} |->
         IF path = DefaultPath
         THEN MarshalFile([id \in {<<"b", "1">>} |-> DocAnn])
         ELSE MarshalFile([id \in {<<"a", "1">>} |-> DocBo])]}

\* the state NewYAMLDatastore returns on one of these directories
Init ==
    /\ disk \in InitDirs
    /\ data \in Reloads(disk)
    /\ files = DOMAIN disk
    /\ indexes = EmptyMap
    /\ cache = EmptyMap
    /\ dirty = FALSE
    /\ txActive = FALSE
    /\ txData = 0
    /\ txFiles = 0
    /\ txMu = FALSE
    /\ ovData = [h \in 0..MaxTx |-> EmptyMap]
    /\ ovFiles = [h \in 0..MaxTx |-> {}]
    /\ hstate = [h \in Handles |-> "none"]
    /\ crashed = FALSE
    /\ last = NoCall
    /\ ret = "ok"
    /\ txPre = NoSnapshot
    /\ again = FALSE
    /\ wrote = {}
    /\ loader = LoaderIdle
    /\ mu = [w |-> 0, r |-> {}, p |-> {}]
    /\ pc = [t \in Threads |-> "idle"]
    /\ th = [t \in Threads |-> NoLocals]
    /\ saveMu = 0
    /\ cacheLock = [w |-> 0, r |-> {}, p |-> {}]
    /\ calls = 0

Next ==
    \/ \E id \in Ids, doc \in Docs, fileID \in FileIDs : Set(id, doc, fileID)
    \/ \E id \in Ids : Get(id)
    \/ \E id \in Ids : Delete(id)
    \/ \E key \in Paths, value \in QueryValues : Query(key, value)
    \/ \E key \in Paths : CreateIndex(key)
    \/ BeginTransaction
    \/ \E h \in Handles, id \in Ids, doc \in Docs, fileID \in FileIDs : TxSet(h, id, doc, fileID)
    \/ \E h \in Handles, id \in Ids : TxDelete(h, id)
    \/ \E h \in Handles : Commit(h)
    \/ \E h \in Handles : Rollback(h)
    \/ Merge
    \/ Save
    \/ Restart

Spec == Init /\ [][Next]_vars

\* the store-level calls alone: no transaction, no save
StoreNext ==
    \/ \E id \in Ids, doc \in Docs, fileID \in FileIDs : Set(id, doc, fileID)
    \/ \E id \in Ids : Get(id)
    \/ \E id \in Ids : Delete(id)
    \/ \E key \in Paths, value \in QueryValues : Query(key, value)
    \/ \E key \in Paths : CreateIndex(key)

StoreSpec == Init /\ [][StoreNext]_vars

----------------------------------------------------------------------------
(* Concurrent callers: each call is a sequence of steps, one per lock        *)
(* operation and per access to state that the lock held does not protect    *)

histVars == <<last, ret, txPre, again, wrote>>

MuFree == mu.w = 0 /\ mu.r = {}

\* thread t makes call c and goes to its first step
Start(t, c, first) ==
    /\ ~crashed
    /\ pc[t] = "idle"
    /\ calls < MaxConcCalls
    /\ calls' = calls + 1
    /\ th' = [th EXCEPT ![t] = [NoLocals EXCEPT !.c = c]]
    /\ pc' = [pc EXCEPT ![t] = first]

\* thread t takes the step at label from and goes to label to
Goto(t, from, to) ==
    /\ ~crashed
    /\ pc[t] = from
    /\ pc' = [pc EXCEPT ![t] = to]
    /\ UNCHANGED calls

\* thread t takes the last step of its call, at label from, and returns
Finish(t, from) ==
    /\ ~crashed
    /\ pc[t] = from
    /\ pc' = [pc EXCEPT ![t] = "idle"]
    /\ th' = [th EXCEPT ![t] = NoLocals]
    /\ UNCHANGED calls

\* thread t makes a call of a single step
Single(t) ==
    /\ ~crashed
    /\ pc[t] = "idle"
    /\ calls < MaxConcCalls
    /\ calls' = calls + 1
    /\ UNCHANGED <<pc, th>>

\* ds.mu.RLock(): it waits while a writer holds the lock or waits for it
RLock(t) == mu.w = 0 /\ mu.p = {} /\ mu' = [mu EXCEPT !.r = @ \cup {t}]

\* ds.mu.RUnlock()
RUnlock(t) == mu' = [mu EXCEPT !.r = @ \ {t}]

\* ds.mu.Lock()
Lock(t) == MuFree /\ mu' = [mu EXCEPT !.w = t, !.p = @ \ {t}]

\* ds.mu.Unlock()
Unlock(t) == mu' = [mu EXCEPT !.w = 0]

\* the handle of the call thread t is executing
HandleOf(t) == th[t].c.h

(* BeginTransaction *)

TBegin(t) ==
    /\ Start(t, Call("BeginTransaction", NoId, Nil, "", NoPath, "", 0), "begin_lock")
    /\ Cardinality({h \in Handles : hstate[h] = "none"})
         > Cardinality({u \in Threads : pc[u] \in {"begin_lock", "begin_check"}})
    /\ UNCHANGED <<storeVars, txVars, disk, crashed, histVars, loader, cacheLock, mu, saveMu>>

\* ds.txMu.Lock()
TBeginLock(t) ==
    /\ Goto(t, "begin_lock", "begin_check")
    /\ ~txMu
    /\ txMu' = TRUE
    /\ UNCHANGED <<storeVars, txActive, txData, txFiles, ovData, ovFiles, hstate, disk, crashed,
                   histVars, loader, cacheLock, mu, th, saveMu>>

\* mutant of TBeginCheck: the slot is taken without the check of ds.txActive
TBeginNoCheck(t) ==
    /\ pc[t] = "begin_check"
    /\ ~crashed
    /\ txActive' = TRUE
    /\ hstate' = [hstate EXCEPT ![NextHandle] = "opening"]
    /\ ovData' = [ovData EXCEPT ![NextHandle] = EmptyMap]
    /\ ovFiles' = [ovFiles EXCEPT ![NextHandle] = {}]
    /\ th' = [th EXCEPT ![t].c.h = NextHandle]
    /\ pc' = [pc EXCEPT ![t] = "begin_data"]
    /\ UNCHANGED <<storeVars, txData, txFiles, txMu, disk, crashed, histVars, loader, cacheLock, mu, saveMu, calls>>

\* the check of ds.txActive, then ds.txActive = true and the new Transaction
TBeginCheck(t) ==
    /\ pc[t] = "begin_check"
    /\ ~crashed
    /\ IF txActive
       THEN /\ txMu' = FALSE
            /\ pc' = [pc EXCEPT ![t] = "idle"]
            /\ th' = [th EXCEPT ![t] = NoLocals]
            /\ UNCHANGED <<txActive, ovData, ovFiles, hstate>>
       ELSE /\ txActive' = TRUE
            /\ hstate' = [hstate EXCEPT ![NextHandle] = "opening"]
            /\ ovData' = [ovData EXCEPT ![NextHandle] = EmptyMap]
            /\ ovFiles' = [ovFiles EXCEPT ![NextHandle] = {}]
            /\ th' = [th EXCEPT ![t].c.h = NextHandle]
            /\ pc' = [pc EXCEPT ![t] = "begin_data"]
            /\ UNCHANGED txMu
    /\ UNCHANGED <<storeVars, txData, txFiles, disk, crashed, histVars, loader, cacheLock, mu, saveMu, calls>>

\* ds.txData = tx.data
TBeginData(t) ==
    /\ Goto(t, "begin_data", "begin_files")
    /\ txData' = HandleOf(t)
    /\ UNCHANGED <<storeVars, txActive, txFiles, txMu, ovData, ovFiles, hstate, disk, crashed,
                   histVars, loader, cacheLock, mu, th, saveMu>>

\* ds.txFiles = tx.files; return tx
TBeginFiles(t) ==
    /\ Finish(t, "begin_files")
    /\ txFiles' = HandleOf(t)
    /\ hstate' = [hstate EXCEPT ![HandleOf(t)] = "open"]
    /\ UNCHANGED <<storeVars, txActive, txData, txMu, ovData, ovFiles, disk, crashed,
                   histVars, loader, cacheLock, mu, saveMu>>

(* Transaction.Set and Transaction.Delete: one unguarded map write each *)

TTxSet(t, h, recordID, doc, fileID) ==
    /\ Single(t)
    /\ hstate[h] = "open"
    /\ ovData' = [ovData EXCEPT ![h] = Put(@, recordID, doc)]
    /\ ovFiles' = [ovFiles EXCEPT ![h] = @ \cup {ShardPath(fileID)}]
    /\ UNCHANGED <<storeVars, txActive, txData, txFiles, txMu, hstate, disk, crashed,
                   histVars, loader, cacheLock, mu, saveMu>>

TTxDelete(t, h, recordID) ==
    /\ Single(t)
    /\ hstate[h] = "open"
    /\ ovData' = [ovData EXCEPT ![h] = Put(@, recordID, Nil)]
    /\ UNCHANGED <<storeVars, txActive, txData, txFiles, txMu, ovFiles, hstate, disk, crashed,
                   histVars, loader, cacheLock, mu, saveMu>>

(* Transaction.Commit *)

TCommit(t, h) ==
    /\ Start(t, Call("Commit", NoId, Nil, "", NoPath, "", h), "commit_lock")
    /\ hstate[h] = "open"
    /\ hstate' = [hstate EXCEPT ![h] = "closing"]
    /\ UNCHANGED <<storeVars, txActive, txData, txFiles, txMu, ovData, ovFiles, disk, crashed,
                   histVars, loader, cacheLock, mu, saveMu>>

\* mutant of TCommitLock: Commit starts its loop without taking ds.mu
TCommitNoLock(t) ==
    /\ Goto(t, "commit_lock", "commit_apply")
    /\ \E order \in Orders(DOMAIN ovData[HandleOf(t)]) :
           th' = [th EXCEPT ![t].order = order, ![t].i = 1]
    /\ UNCHANGED <<storeVars, txVars, disk, crashed, histVars, loader, cacheLock, mu, saveMu>>

\* tx.ds.mu.Lock(), and the order the range over tx.data will take
TCommitLock(t) ==
    /\ Goto(t, "commit_lock", "commit_apply")
    /\ Lock(t)
    /\ \E order \in Orders(DOMAIN ovData[HandleOf(t)]) :
           th' = [th EXCEPT ![t].order = order, ![t].i = 1]
    /\ UNCHANGED <<storeVars, txVars, disk, crashed, histVars, loader, cacheLock, saveMu>>

\* one iteration of the loop over tx.data
TCommitApply(t) ==
    /\ Goto(t, "commit_apply", "commit_apply")
    /\ th[t].i <= Len(th[t].order)
    /\ LET id == th[t].order[th[t].i]
           s == CommitEntry(Committed, id, ovData[HandleOf(t)][id])
       IN  data' = s.data /\ indexes' = s.indexes
    /\ th' = [th EXCEPT ![t].i = @ + 1]
    /\ UNCHANGED <<files, cache, dirty, txVars, disk, crashed, histVars, loader, cacheLock, mu, saveMu>>

\* the statements after the loop, up to tx.commit = true
TCommitFinish(t) ==
    /\ Goto(t, "commit_apply", "commit_unlock_tx")
    /\ th[t].i > Len(th[t].order)
    /\ files' = files \cup ovFiles[HandleOf(t)]
    /\ dirty' = TRUE
    /\ cache' = EmptyMap
    /\ txActive' = FALSE
    /\ hstate' = [hstate EXCEPT ![HandleOf(t)] = "committed"]
    /\ UNCHANGED <<data, indexes, txData, txFiles, txMu, ovData, ovFiles, disk, crashed,
                   histVars, loader, cacheLock, mu, th, saveMu>>

\* the deferred tx.ds.txMu.Unlock()
TCommitUnlockTx(t) ==
    /\ Goto(t, "commit_unlock_tx", "commit_unlock")
    /\ txMu' = FALSE
    /\ UNCHANGED <<storeVars, txActive, txData, txFiles, ovData, ovFiles, hstate, disk, crashed,
                   histVars, loader, cacheLock, mu, th, saveMu>>

\* the deferred tx.ds.mu.Unlock()
TCommitUnlock(t) ==
    /\ Finish(t, "commit_unlock")
    /\ Unlock(t)
    /\ UNCHANGED <<storeVars, txVars, disk, crashed, histVars, loader, cacheLock, saveMu>>

(* Transaction.Rollback *)

\* the call and its first statement, tx.ds.txMu.Unlock()
TRollback(t, h) ==
    /\ Start(t, Call("Rollback", NoId, Nil, "", NoPath, "", h), "rollback_lock")
    /\ hstate[h] = "open"
    /\ hstate' = [hstate EXCEPT ![h] = "closing"]
    /\ txMu' = FALSE
    /\ UNCHANGED <<storeVars, txActive, txData, txFiles, ovData, ovFiles, disk, crashed,
                   histVars, loader, cacheLock, mu, saveMu>>

\* tx.ds.mu.Lock()
TRollbackLock(t) ==
    /\ Goto(t, "rollback_lock", "rollback_active")
    /\ Lock(t)
    /\ UNCHANGED <<storeVars, txVars, disk, crashed, histVars, loader, cacheLock, th, saveMu>>

\* tx.ds.txActive = false
TRollbackActive(t) ==
    /\ Goto(t, "rollback_active", "rollback_data")
    /\ txActive' = FALSE
    /\ hstate' = [hstate EXCEPT ![HandleOf(t)] = "rolledback"]
    /\ UNCHANGED <<storeVars, txData, txFiles, txMu, ovData, ovFiles, disk, crashed,
                   histVars, loader, cacheLock, mu, th, saveMu>>

\* tx.ds.txData = make(map[string]interface{})
TRollbackData(t) ==
    /\ Goto(t, "rollback_data", "rollback_files")
    /\ txData' = 0
    /\ ovData' = [ovData EXCEPT ![0] = EmptyMap]
    /\ UNCHANGED <<storeVars, txActive, txFiles, txMu, ovFiles, hstate, disk, crashed,
                   histVars, loader, cacheLock, mu, th, saveMu>>

\* tx.ds.txFiles = make(map[string]bool), and the deferred tx.ds.mu.Unlock()
TRollbackFiles(t) ==
    /\ Finish(t, "rollback_files")
    /\ txFiles' = 0
    /\ ovFiles' = [ovFiles EXCEPT ![0] = {}]
    /\ Unlock(t)
    /\ UNCHANGED <<storeVars, txActive, txData, txMu, ovData, hstate, disk, crashed,
                   histVars, loader, cacheLock, saveMu>>

(* The readers: Get, Query, Merge and Save's snapshot *)

TGet(t, recordID) ==
    /\ Start(t, Call("Get", recordID, Nil, "", NoPath, "", 0), "read_rlock")
    /\ UNCHANGED <<storeVars, txVars, disk, crashed, histVars, loader, cacheLock, mu, saveMu>>

TQuery(t, key, value) ==
    /\ Start(t, Call("Query", NoId, Nil, "", key, value, 0), "read_rlock")
    /\ UNCHANGED <<storeVars, txVars, disk, crashed, histVars, loader, cacheLock, mu, saveMu>>

\* ds.mu.RLock() of Get and Query
TReadRLock(t) ==
    /\ Goto(t, "read_rlock", "read_body")
    /\ RLock(t)
    /\ UNCHANGED <<storeVars, txVars, disk, crashed, histVars, loader, cacheLock, th, saveMu>>

\* the body of Get or Query and the deferred ds.mu.RUnlock()
TReadBody(t) ==
    /\ Finish(t, "read_body")
    /\ RUnlock(t)
    /\ UNCHANGED <<storeVars, txVars, disk, crashed, histVars, loader, cacheLock, saveMu>>

TMerge(t) ==
    /\ Start(t, Call("Merge", NoId, Nil, "", NoPath, "", 0), "merge_rlock")
    /\ UNCHANGED <<storeVars, txVars, disk, crashed, histVars, loader, cacheLock, mu, saveMu>>

TMergeRLock(t) ==
    /\ Goto(t, "merge_rlock", "merge_check")
    /\ RLock(t)
    /\ UNCHANGED <<storeVars, txVars, disk, crashed, histVars, loader, cacheLock, th, saveMu>>

\* the look-up of ds.cache["merged"] under ds.cacheLock; on a hit Merge returns
TMergeCheck(t) ==
    /\ pc[t] = "merge_check"
    /\ ~crashed
    /\ IF "merged" \in DOMAIN cache
       THEN /\ pc' = [pc EXCEPT ![t] = "idle"]
            /\ th' = [th EXCEPT ![t] = NoLocals]
            /\ RUnlock(t)
       ELSE /\ pc' = [pc EXCEPT ![t] = "merge_compute"]
            /\ UNCHANGED <<th, mu>>
    /\ UNCHANGED <<storeVars, txVars, disk, crashed, histVars, loader, cacheLock, saveMu, calls>>

\* the loop that builds merged
TMergeCompute(t) ==
    /\ Goto(t, "merge_compute", "merge_store")
    /\ th' = [th EXCEPT ![t].merged = MergedView]
    /\ UNCHANGED <<storeVars, txVars, disk, crashed, histVars, loader, cacheLock, mu, saveMu>>

\* ds.cache["merged"] = merged under ds.cacheLock, and the deferred ds.mu.RUnlock()
TMergeStore(t) ==
    /\ Finish(t, "merge_store")
    /\ cache' = Put(cache, "merged", th[t].merged)
    /\ RUnlock(t)
    /\ UNCHANGED <<data, files, indexes, dirty, txVars, disk, crashed, histVars, loader, cacheLock, saveMu>>

TSave(t) ==
    /\ Start(t, Call("Save", NoId, Nil, "", NoPath, "", 0), "save_mu")
    /\ UNCHANGED <<storeVars, txVars, disk, crashed, histVars, loader, cacheLock, mu, saveMu>>

\* mutant of TSaveMu: Save goes on without waiting for ds.saveMu
TSaveMuNoWait(t) ==
    /\ Goto(t, "save_mu", "save_rlock")
    /\ saveMu' = t
    /\ UNCHANGED <<storeVars, txVars, disk, crashed, histVars, loader, cacheLock, mu, th>>

\* ds.saveMu.Lock()
TSaveMu(t) ==
    /\ Goto(t, "save_mu", "save_rlock")
    /\ saveMu = 0
    /\ saveMu' = t
    /\ UNCHANGED <<storeVars, txVars, disk, crashed, histVars, loader, cacheLock, mu, th>>

\* mutant of TSaveRLock: Save takes its copies without waiting for a writer
\* that holds ds.mu
TSaveRLockNoWait(t) ==
    /\ Goto(t, "save_rlock", "save_snapshot")
    /\ mu' = [mu EXCEPT !.r = @ \cup {t}]
    /\ UNCHANGED <<storeVars, txVars, disk, crashed, histVars, loader, cacheLock, th, saveMu>>

\* ds.mu.RLock() of Save
TSaveRLock(t) ==
    /\ Goto(t, "save_rlock", "save_snapshot")
    /\ RLock(t)
    /\ UNCHANGED <<storeVars, txVars, disk, crashed, histVars, loader, cacheLock, th, saveMu>>

\* the dirty check and the copies of ds.data and ds.files, then ds.mu.RUnlock()
TSaveSnapshot(t) ==
    /\ pc[t] = "save_snapshot"
    /\ ~crashed
    /\ RUnlock(t)
    /\ IF ~dirty
       THEN /\ pc' = [pc EXCEPT ![t] = "idle"]
            /\ saveMu' = 0
            /\ th' = [th EXCEPT ![t] = NoLocals]
       ELSE /\ pc' = [pc EXCEPT ![t] = "save_write"]
            /\ th' = [th EXCEPT ![t].dataCopy = data, ![t].filesCopy = files]
            /\ UNCHANGED saveMu
    /\ UNCHANGED <<storeVars, txVars, disk, crashed, histVars, loader, cacheLock, calls>>

\* the grouping and the writes of the shard files, from the copies
TSaveWrite(t) ==
    /\ pc[t] = "save_write"
    /\ ~crashed
    /\ IF SavePanics(th[t].dataCopy, th[t].filesCopy)
       THEN /\ crashed' = TRUE
            /\ UNCHANGED <<disk, pc, th, saveMu>>
       ELSE \E W \in SUBSET SaveTargets(th[t].dataCopy, th[t].filesCopy) :
            /\ disk' = WriteFiles(disk, SaveGroups(th[t].dataCopy, th[t].filesCopy), W)
            /\ IF W = SaveTargets(th[t].dataCopy, th[t].filesCopy)
               THEN /\ pc' = [pc EXCEPT ![t] = "save_lock"]
                    /\ UNCHANGED <<th, saveMu>>
               ELSE /\ pc' = [pc EXCEPT ![t] = "idle"]
                    /\ th' = [th EXCEPT ![t] = NoLocals]
                    /\ saveMu' = 0
            /\ UNCHANGED crashed
    /\ UNCHANGED <<storeVars, txVars, histVars, loader, cacheLock, mu, calls>>

\* ds.mu.Lock()
TSaveLock(t) ==
    /\ Goto(t, "save_lock", "save_clear")
    /\ Lock(t)
    /\ UNCHANGED <<storeVars, txVars, disk, crashed, histVars, loader, cacheLock, th, saveMu>>

\* ds.dirty = false, ds.mu.Unlock() and the deferred ds.saveMu.Unlock()
TSaveClear(t) ==
    /\ Finish(t, "save_clear")
    /\ dirty' = FALSE
    /\ Unlock(t)
    /\ saveMu' = 0
    /\ UNCHANGED <<data, files, indexes, cache, txVars, disk, crashed, histVars, loader, cacheLock>>

\* the arguments of the interleaved callers: the document they stage, the id
\* they get and the value they query
ConcDocs == {DocAnn}
ConcReadIds == {<<"a", "1">>}
ConcQueryValues == {"eng"}

TxNext ==
    \/ \E t \in Threads : TBegin(t)
    \/ \E t \in Threads : TBeginLock(t)
    \/ \E t \in Threads : TBeginCheck(t)
    \/ \E t \in Threads : TBeginData(t)
    \/ \E t \in Threads : TBeginFiles(t)
    \/ \E t \in Threads, h \in Handles, id \in Ids, doc \in ConcDocs : TTxSet(t, h, id, doc, id[1])
    \/ \E t \in Threads, h \in Handles, id \in Ids : TTxDelete(t, h, id)
    \/ \E t \in Threads, h \in Handles : TCommit(t, h)
    \/ \E t \in Threads : TCommitLock(t)
    \/ \E t \in Threads : TCommitApply(t)
    \/ \E t \in Threads : TCommitFinish(t)
    \/ \E t \in Threads : TCommitUnlockTx(t)
    \/ \E t \in Threads : TCommitUnlock(t)
    \/ \E t \in Threads, h \in Handles : TRollback(t, h)
    \/ \E t \in Threads : TRollbackLock(t)
    \/ \E t \in Threads : TRollbackActive(t)
    \/ \E t \in Threads : TRollbackData(t)
    \/ \E t \in Threads : TRollbackFiles(t)
    \/ \E t \in Threads, id \in ConcReadIds : TGet(t, id)
    \/ \E t \in Threads, key \in Paths, value \in ConcQueryValues : TQuery(t, key, value)
    \/ \E t \in Threads : TReadRLock(t)
    \/ \E t \in Threads : TReadBody(t)
    \/ \E t \in Threads : TMerge(t)
    \/ \E t \in Threads : TMergeRLock(t)
    \/ \E t \in Threads : TMergeCheck(t)
    \/ \E t \in Threads : TMergeCompute(t)
    \/ \E t \in Threads : TMergeStore(t)
    \/ \E t \in Threads : TSave(t)
    \/ \E t \in Threads : TSaveMu(t)
    \/ \E t \in Threads : TSaveRLock(t)
    \/ \E t \in Threads : TSaveSnapshot(t)
    \/ \E t \in Threads : TSaveWrite(t)
    \/ \E t \in Threads : TSaveLock(t)
    \/ \E t \in Threads : TSaveClear(t)

\* the interleaved callers start on the directory of two shard files
TxInit == Init /\ DefaultPath \in DOMAIN disk

TxSpec == TxInit /\ [][TxNext]_vars

----------------------------------------------------------------------------
(* Save beside concurrent store-level writers *)

TSet(t, recordID, doc, fileID) ==
    /\ Start(t, Call("Set", recordID, doc, fileID, NoPath, "", 0), "write_lock")
    /\ UNCHANGED <<storeVars, txVars, disk, crashed, histVars, loader, cacheLock, mu, saveMu>>

TDelete(t, recordID) ==
    /\ Start(t, Call("Delete", recordID, Nil, "", NoPath, "", 0), "write_lock")
    /\ UNCHANGED <<storeVars, txVars, disk, crashed, histVars, loader, cacheLock, mu, saveMu>>

\* ds.mu.Lock(), the body of Set or Delete, and the deferred ds.mu.Unlock():
\* one step, the body being under the exclusive lock from end to end
WriteBody(t) ==
    /\ Finish(t, "write_lock")
    /\ MuFree
    /\ LET c == th[t].c
       IN  IF txActive
           THEN /\ ovData' = [ovData EXCEPT ![txData] = Put(@, c.id, c.doc)]
                /\ ovFiles' = IF c.op = "Set"
                              THEN [ovFiles EXCEPT ![txFiles] = @ \cup {ShardPath(c.fileID)}]
                              ELSE ovFiles
                /\ UNCHANGED storeVars
           ELSE /\ IF c.op = "Set"
                   THEN Install(StoreSet(Committed, c.id, c.doc, c.fileID))
                   ELSE IF c.id \in DOMAIN data
                   THEN Install(StoreDelete(Committed, c.id))
                   ELSE UNCHANGED storeVars
                /\ UNCHANGED <<ovData, ovFiles>>
    /\ UNCHANGED <<txActive, txData, txFiles, txMu, hstate, disk, crashed, mu, saveMu>>

TWriteBody(t) == WriteBody(t) /\ UNCHANGED <<histVars, loader, cacheLock>>

\* the documents the writers beside Save set
SaveDocs == {DocAnn, DocBo}

SaveNext ==
    \/ \E t \in Threads, id \in Ids, doc \in SaveDocs, fileID \in FileIDs : TSet(t, id, doc, fileID)
    \/ \E t \in Threads, id \in Ids : TDelete(t, id)
    \/ \E t \in Threads : TWriteBody(t)
    \/ \E t \in Threads : TSave(t)
    \/ \E t \in Threads : TSaveMu(t)
    \/ \E t \in Threads : TSaveRLock(t)
    \/ \E t \in Threads : TSaveSnapshot(t)
    \/ \E t \in Threads : TSaveWrite(t)
    \/ \E t \in Threads : TSaveLock(t)
    \/ \E t \in Threads : TSaveClear(t)

SaveSpec == Init /\ [][SaveNext]_vars

----------------------------------------------------------------------------
(* Get beside a writer and BeginTransaction, after a committed transaction *)

\* the record the callers write and get, and the document the committed
\* transaction staged for it
LinId == <<"a", "1">>
LinStaged == DocAnn

\* the state that BeginTransaction, tx.Set(LinId, LinStaged, "a") and
\* tx.Commit leave on the directory of two shard files: Commit does not reset
\* ds.txData, which still references the committed handle's tx.data
LinInit ==
    /\ disk \in {dk \in InitDirs : DefaultPath \in DOMAIN dk}
    /\ \E loaded \in Reloads(disk) : data = Put(loaded, LinId, LinStaged)
    /\ files = DOMAIN disk
    /\ indexes = EmptyMap
    /\ cache = EmptyMap
    /\ dirty = TRUE
    /\ txActive = FALSE
    /\ txData = 1
    /\ txFiles = 1
    /\ txMu = FALSE
    /\ ovData = [h \in 0..MaxTx |-> IF h = 1 THEN Put(EmptyMap, LinId, LinStaged) ELSE EmptyMap]
    /\ ovFiles = [h \in 0..MaxTx |-> IF h = 1 THEN {ShardPath("a")} ELSE {}]
    /\ hstate = [h \in Handles |-> IF h = 1 THEN "committed" ELSE "none"]
    /\ crashed = FALSE
    /\ last = Call("Commit", NoId, Nil, "", NoPath, "", 1)
    /\ ret = "ok"
    /\ txPre = NoSnapshot
    /\ again = FALSE
    /\ wrote = {}
    /\ loader = LoaderIdle
    /\ mu = [w |-> 0, r |-> {}, p |-> {}]
    /\ pc = [t \in Threads |-> "idle"]
    /\ th = [t \in Threads |-> NoLocals]
    /\ saveMu = 0
    /\ cacheLock = [w |-> 0, r |-> {}, p |-> {}]
    /\ calls = 0

\* the document of the latest write to LinId that has returned: last is the
\* latest Set that returned, or the Commit of the initial state
LatestWrite == IF last.op = "Set" THEN last.doc ELSE LinStaged

\* the return of Set, recorded as the latest write
LWriteBody(t) ==
    /\ WriteBody(t)
    /\ last' = th[t].c
    /\ ret' = "ok"
    /\ UNCHANGED <<txPre, again, wrote, loader, cacheLock>>

\* a Get call; its doc field records the document of the latest write that
\* had returned when the call was made
LGet(t, recordID) ==
    /\ Start(t, Call("Get", recordID, LatestWrite, "", NoPath, "", 0), "read_rlock")
    /\ UNCHANGED <<storeVars, txVars, disk, crashed, histVars, loader, cacheLock, mu, saveMu>>

LinNext ==
    \/ \E t \in Threads, doc \in SaveDocs : TSet(t, LinId, doc, "a")
    \/ \E t \in Threads : LWriteBody(t)
    \/ \E t \in Threads : TBegin(t)
    \/ \E t \in Threads : TBeginLock(t)
    \/ \E t \in Threads : TBeginCheck(t)
    \/ \E t \in Threads : TBeginData(t)
    \/ \E t \in Threads : TBeginFiles(t)
    \/ \E t \in Threads : LGet(t, LinId)
    \/ \E t \in Threads : TReadRLock(t)
    \/ \E t \in Threads : TReadBody(t)

LinSpec == LinInit /\ [][LinNext]_vars

----------------------------------------------------------------------------
(* The transaction slot under a fair scheduler *)

\* the calls on the transaction slot: callers begin, stage, commit and roll
\* back as they choose
SlotNext ==
    \/ \E t \in Threads : TBegin(t)
    \/ \E t \in Threads : TBeginLock(t)
    \/ \E t \in Threads : TBeginCheck(t)
    \/ \E t \in Threads : TBeginData(t)
    \/ \E t \in Threads : TBeginFiles(t)
    \/ \E t \in Threads, h \in Handles, id \in Ids, doc \in ConcDocs : TTxSet(t, h, id, doc, id[1])
    \/ \E t \in Threads, h \in Handles : TCommit(t, h)
    \/ \E t \in Threads : TCommitLock(t)
    \/ \E t \in Threads : TCommitApply(t)
    \/ \E t \in Threads : TCommitFinish(t)
    \/ \E t \in Threads : TCommitUnlockTx(t)
    \/ \E t \in Threads : TCommitUnlock(t)
    \/ \E t \in Threads, h \in Handles : TRollback(t, h)
    \/ \E t \in Threads : TRollbackLock(t)
    \/ \E t \in Threads : TRollbackActive(t)
    \/ \E t \in Threads : TRollbackData(t)
    \/ \E t \in Threads : TRollbackFiles(t)

\* a step of the call thread t has in progress
InCall(t) ==
    \/ TBeginLock(t) \/ TBeginCheck(t) \/ TBeginData(t) \/ TBeginFiles(t)
    \/ TCommitLock(t) \/ TCommitApply(t) \/ TCommitFinish(t) \/ TCommitUnlockTx(t)
    \/ TCommitUnlock(t)
    \/ TRollbackLock(t) \/ TRollbackActive(t) \/ TRollbackData(t) \/ TRollbackFiles(t)

\* the scheduler runs every call in progress that can take a step; whether a
\* caller ever makes a call (a Commit or Rollback of its handle included) is
\* up to the caller
SlotSpec == TxInit /\ [][SlotNext]_vars /\ \A t \in Threads : WF_vars(InCall(t))

----------------------------------------------------------------------------
(* The loader: NewYAMLDatastore's ConcurrentRead, one worker per shard file *)

\* a file content that yaml.Unmarshal rejects
CorruptFile == [id \in {NoId} |-> [y |-> "invalid"]]

\* yaml.Unmarshal(data, &fileData) returns an error
ParseFails(text) == \E id \in DOMAIN text : text[id].y = "invalid"

\* the records a shard file defines
RecordsOf(dk, path) == IF ParseFails(dk[path]) THEN {} ELSE DOMAIN dk[path]

\* the data directories loaded: two shard files; three with a corrupt one;
\* two that define the same id
LoadDirs ==
    {[path \in {ShardPath("a"), DefaultPath} |->
         IF path = DefaultPath
         THEN MarshalFile([id \in {<<"b", "1">>} |-> DocBo])
         ELSE MarshalFile([id \in {<<"a", "1">>} |-> DocAnn])],
     [path \in {ShardPath("a"), ShardPath("b"), DefaultPath} |->
         IF path = DefaultPath THEN CorruptFile
         ELSE IF path = ShardPath("b")
         THEN MarshalFile([id \in {<<"b", "1">>} |-> DocBo])
         ELSE MarshalFile([id \in {<<"a", "1">>} |-> DocAnn])],
     [path \in {ShardPath("a"), DefaultPath} |->
         IF path = DefaultPath
         THEN MarshalFile([id \in {<<"a", "1">>} |-> DocBo])
         ELSE MarshalFile([id \in {<<"a", "1">>} |-> DocAnn])]}

\* filepath.Walk visits the files in lexical order
LexicalPaths == <<ShardPath("a"), ShardPath("b"), DefaultPath>>

LoadPaths == {LexicalPaths[i] : i \in DOMAIN LexicalPaths}

WalkOrder(dk) ==
    LET IsFile(path) == path \in DOMAIN dk
    IN  SelectSeq(LexicalPaths, IsFile)

\* mutant of ErrChCap: errCh is made without a buffer
ErrChUnbuffered(n) == 0

\* the capacity of errCh: make(chan error, len(files))
ErrChCap(n) == n

loadFrame == <<indexes, cache, dirty, txVars, disk, crashed, histVars, concVars, calls>>

\* the struct literal of NewYAMLDatastore, before ConcurrentRead
LoadInit ==
    /\ disk \in LoadDirs
    /\ data = EmptyMap
    /\ files = {}
    /\ indexes = EmptyMap
    /\ cache = EmptyMap
    /\ dirty = FALSE
    /\ txActive = FALSE
    /\ txData = 0
    /\ txFiles = 0
    /\ txMu = FALSE
    /\ ovData = [h \in 0..MaxTx |-> EmptyMap]
    /\ ovFiles = [h \in 0..MaxTx |-> {}]
    /\ hstate = [h \in Handles |-> "none"]
    /\ crashed = FALSE
    /\ last = NoCall
    /\ ret = "ok"
    /\ txPre = NoSnapshot
    /\ again = FALSE
    /\ wrote = {}
    /\ loader = [LoaderIdle EXCEPT !.pc = "walk"]
    /\ mu = [w |-> 0, r |-> {}, p |-> {}]
    /\ pc = [t \in Threads |-> "idle"]
    /\ th = [t \in Threads |-> NoLocals]
    /\ saveMu = 0
    /\ cacheLock = [w |-> 0, r |-> {}, p |-> {}]
    /\ calls = 0

\* filepath.Walk: on an error ConcurrentRead returns it; else every .yaml file
\* is tracked and ds.data is made anew
LoaderWalk ==
    /\ loader.pc = "walk"
    /\ \E err \in BOOLEAN :
          IF err
          THEN /\ loader' = [loader EXCEPT !.pc = "returned", !.result = "IOError"]
               /\ UNCHANGED <<data, files>>
          ELSE /\ files' = DOMAIN disk
               /\ data' = EmptyMap
               /\ loader' = [loader EXCEPT !.pc = "spawn", !.paths = WalkOrder(disk), !.i = 1,
                                           !.w = [path \in DOMAIN disk |-> "none"]]
    /\ UNCHANGED loadFrame

\* one iteration of "for _, path := range files": wg.Add(1) and go func(path)
LoaderSpawn ==
    /\ loader.pc = "spawn"
    /\ loader.i <= Len(loader.paths)
    /\ loader' = [loader EXCEPT !.w[loader.paths[loader.i]] = "read", !.wg = @ + 1, !.i = @ + 1]
    /\ UNCHANGED <<data, files, loadFrame>>

\* readFile up to yaml.Unmarshal: os.Open and io.ReadAll can fail on any
\* file, yaml.Unmarshal fails on a corrupt one
WorkerRead(path) ==
    /\ path \in DOMAIN loader.w
    /\ loader.w[path] = "read"
    /\ \E io \in BOOLEAN :
          IF io \/ ParseFails(disk[path])
          THEN loader' = [loader EXCEPT !.w[path] = "send", !.failed = @ \cup {path}]
          ELSE loader' = [loader EXCEPT !.w[path] = "merge"]
    /\ UNCHANGED <<data, files, loadFrame>>

\* errCh <- err, then the deferred wg.Done()
WorkerSend(path) ==
    /\ path \in DOMAIN loader.w
    /\ loader.w[path] = "send"
    /\ loader.errCh < ErrChCap(Len(loader.paths))
    /\ loader' = [loader EXCEPT !.w[path] = "done", !.errCh = @ + 1, !.wg = @ - 1]
    /\ UNCHANGED <<data, files, loadFrame>>

\* readFile's merge under ds.mu (ds.indexes is empty during the load, so
\* updateIndexes has nothing to do), then the deferred wg.Done()
WorkerMerge(path) ==
    /\ path \in DOMAIN loader.w
    /\ loader.w[path] = "merge"
    /\ MuFree
    /\ data' = LoadFiles(data, disk, <<path>>, 1)
    /\ loader' = [loader EXCEPT !.w[path] = "done", !.wg = @ - 1]
    /\ UNCHANGED <<files, loadFrame>>

\* wg.Wait() returns and close(errCh)
LoaderWait ==
    /\ loader.pc = "spawn"
    /\ loader.i > Len(loader.paths)
    /\ loader.wg = 0
    /\ loader' = [loader EXCEPT !.pc = "collect"]
    /\ UNCHANGED <<data, files, loadFrame>>

\* "for err := range errCh" logs the errors; return nil
LoaderCollect ==
    /\ loader.pc = "collect"
    /\ loader' = [loader EXCEPT !.pc = "returned", !.errCh = 0, !.result = "ok"]
    /\ UNCHANGED <<data, files, loadFrame>>

LoadNext ==
    \/ LoaderWalk
    \/ LoaderSpawn
    \/ \E path \in LoadPaths : WorkerRead(path)
    \/ \E path \in LoadPaths : WorkerSend(path)
    \/ \E path \in LoadPaths : WorkerMerge(path)
    \/ LoaderWait
    \/ LoaderCollect

\* the Go scheduler runs every goroutine that can take a step
LoadSpec == LoadInit /\ [][LoadNext]_vars /\ WF_vars(LoadNext)

----------------------------------------------------------------------------
(* Save beside store-level writers and a committing transaction *)

\* the record the store-level writers set and delete
SnapId == <<"a", "1">>

SnapNext ==
    \/ \E t \in Threads : TSet(t, SnapId, DocBo, "a")
    \/ \E t \in Threads : TDelete(t, SnapId)
    \/ \E t \in Threads : TWriteBody(t)
    \/ \E t \in Threads : TBegin(t)
    \/ \E t \in Threads : TBeginLock(t)
    \/ \E t \in Threads : TBeginCheck(t)
    \/ \E t \in Threads : TBeginData(t)
    \/ \E t \in Threads : TBeginFiles(t)
    \/ \E t \in Threads, h \in Handles, id \in Ids, doc \in ConcDocs : TTxSet(t, h, id, doc, id[1])
    \/ \E t \in Threads, h \in Handles : TCommit(t, h)
    \/ \E t \in Threads : TCommitLock(t)
    \/ \E t \in Threads : TCommitApply(t)
    \/ \E t \in Threads : TCommitFinish(t)
    \/ \E t \in Threads : TCommitUnlockTx(t)
    \/ \E t \in Threads : TCommitUnlock(t)
    \/ \E t \in Threads : TSave(t)
    \/ \E t \in Threads : TSaveMu(t)
    \/ \E t \in Threads : TSaveRLock(t)
    \/ \E t \in Threads : TSaveSnapshot(t)
    \/ \E t \in Threads : TSaveWrite(t)
    \/ \E t \in Threads : TSaveLock(t)
    \/ \E t \in Threads : TSaveClear(t)

SnapSpec == TxInit /\ [][SnapNext]_vars

----------------------------------------------------------------------------
(* Transaction handles used after they were closed *)

\* the transaction calls, with Commit and Rollback made on closed handles too,
\* and a store-level Set between them
ReuseNext ==
    \/ BeginTransaction
    \/ \E h \in Handles, id \in Ids, doc \in ConcDocs : TxSet(h, id, doc, id[1])
    \/ \E h \in Handles : Commit(h)
    \/ \E h \in Handles : Rollback(h)
    \/ \E h \in Handles : CommitClosed(h)
    \/ \E h \in Handles : RollbackClosed(h)
    \/ \E id \in Ids : Set(id, DocBo, id[1])

ReuseSpec == Init /\ [][ReuseNext]_vars

----------------------------------------------------------------------------
(* The locks: the data lock, the cache lock, the save lock and the         *)
(* transaction gate, with every acquisition a step of its own              *)

CacheFree == cacheLock.w = 0 /\ cacheLock.r = {}

\* the steps at which a call is about to run ds.mu.Lock()
MuLockSteps == {"write_lock", "index_lock", "commit_lock", "rollback_lock", "save_lock"}

\* the steps at which a call is about to run ds.cacheLock.Lock()
CacheLockSteps == {"write_invalidate", "commit_invalidate", "merge_store"}

\* the record the callers set, delete and get
LockId == <<"a", "1">>

\* the state BeginTransaction and tx.Set(LockId, DocAnn, "a") leave on the
\* directory of two shard files: one transaction is open
LockInit ==
    /\ disk \in {dk \in InitDirs : DefaultPath \in DOMAIN dk}
    /\ data \in Reloads(disk)
    /\ files = DOMAIN disk
    /\ indexes = EmptyMap
    /\ cache = EmptyMap
    /\ dirty = FALSE
    /\ txActive = TRUE
    /\ txData = 1
    /\ txFiles = 1
    /\ txMu = TRUE
    /\ ovData = [h \in 0..MaxTx |-> IF h = 1 THEN Put(EmptyMap, LockId, DocAnn) ELSE EmptyMap]
    /\ ovFiles = [h \in 0..MaxTx |-> IF h = 1 THEN {ShardPath("a")} ELSE {}]
    /\ hstate = [h \in Handles |-> IF h = 1 THEN "open" ELSE "none"]
    /\ crashed = FALSE
    /\ last = Call("tx.Set", LockId, DocAnn, "a", NoPath, "", 1)
    /\ ret = "ok"
    /\ txPre = [data |-> data, files |-> files, indexes |-> indexes, dirty |-> dirty]
    /\ again = FALSE
    /\ wrote = {}
    /\ loader = LoaderIdle
    /\ mu = [w |-> 0, r |-> {}, p |-> {}]
    /\ pc = [t \in Threads |-> "idle"]
    /\ th = [t \in Threads |-> NoLocals]
    /\ saveMu = 0
    /\ cacheLock = [w |-> 0, r |-> {}, p |-> {}]
    /\ calls = 0

\* a call that found ds.mu taken waits inside Lock(): from then on new readers wait too
TMuWait(t) ==
    /\ ~crashed
    /\ pc[t] \in MuLockSteps
    /\ t \notin mu.p
    /\ ~MuFree
    /\ mu' = [mu EXCEPT !.p = @ \cup {t}]
    /\ UNCHANGED <<storeVars, txVars, disk, crashed, histVars, loader, pc, th, saveMu, cacheLock, calls>>

\* the same for ds.cacheLock
TCacheWait(t) ==
    /\ ~crashed
    /\ pc[t] \in CacheLockSteps
    /\ t \notin cacheLock.p
    /\ ~CacheFree
    /\ cacheLock' = [cacheLock EXCEPT !.p = @ \cup {t}]
    /\ UNCHANGED <<storeVars, txVars, disk, crashed, histVars, loader, mu, pc, th, saveMu, calls>>

(* Set and Delete *)

\* ds.mu.Lock()
TWriteLock(t) ==
    /\ Goto(t, "write_lock", "write_body")
    /\ Lock(t)
    /\ UNCHANGED <<storeVars, txVars, disk, crashed, histVars, loader, th, saveMu, cacheLock>>

\* the statements of Set or Delete up to ds.dirty = true, or up to the return
\* when a transaction is active or the record to delete is absent
TWriteApply(t) ==
    /\ pc[t] = "write_body"
    /\ ~crashed
    /\ LET c == th[t].c
       IN  IF txActive
           THEN /\ ovData' = [ovData EXCEPT ![txData] = Put(@, c.id, c.doc)]
                /\ ovFiles' = IF c.op = "Set"
                              THEN [ovFiles EXCEPT ![txFiles] = @ \cup {ShardPath(c.fileID)}]
                              ELSE ovFiles
                /\ pc' = [pc EXCEPT ![t] = "write_unlock"]
                /\ UNCHANGED <<data, files, dirty>>
           ELSE IF c.op = "Delete" /\ c.id \notin DOMAIN data
           THEN /\ pc' = [pc EXCEPT ![t] = "write_unlock"]
                /\ UNCHANGED <<data, files, dirty, ovData, ovFiles>>
           ELSE /\ data' = IF c.op = "Set" THEN Put(data, c.id, c.doc) ELSE Del(data, c.id)
                /\ files' = IF c.op = "Set" THEN files \cup {ShardPath(c.fileID)} ELSE files
                /\ dirty' = TRUE
                /\ pc' = [pc EXCEPT ![t] = "write_invalidate"]
                /\ UNCHANGED <<ovData, ovFiles>>
    /\ UNCHANGED <<indexes, cache, txActive, txData, txFiles, txMu, hstate, disk, crashed,
                   histVars, loader, mu, th, saveMu, cacheLock, calls>>

\* invalidateCache: ds.cacheLock.Lock()
TInvalidateLock(t) ==
    /\ Goto(t, "write_invalidate", "write_clear")
    /\ CacheFree
    /\ cacheLock' = [cacheLock EXCEPT !.w = t, !.p = @ \ {t}]
    /\ UNCHANGED <<storeVars, txVars, disk, crashed, histVars, loader, mu, th, saveMu>>

\* invalidateCache: ds.cache = make(...), ds.cacheLock.Unlock(); then the index
\* maintenance of Set or Delete
TInvalidateClear(t) ==
    /\ Goto(t, "write_clear", "write_unlock")
    /\ cache' = EmptyMap
    /\ cacheLock' = [cacheLock EXCEPT !.w = 0]
    /\ indexes' = IF th[t].c.op = "Set"
                  THEN updateIndexes(indexes, th[t].c.id, th[t].c.doc)
                  ELSE removeFromIndexes(indexes, th[t].c.id)
    /\ UNCHANGED <<data, files, dirty, txVars, disk, crashed, histVars, loader, mu, th, saveMu>>

\* the deferred ds.mu.Unlock()
TWriteUnlock(t) ==
    /\ Finish(t, "write_unlock")
    /\ Unlock(t)
    /\ UNCHANGED <<storeVars, txVars, disk, crashed, histVars, loader, saveMu, cacheLock>>

(* CreateIndex *)

TCreateIndex(t, key) ==
    /\ Start(t, Call("CreateIndex", NoId, Nil, "", key, "", 0), "index_lock")
    /\ UNCHANGED <<storeVars, txVars, disk, crashed, histVars, loader, mu, saveMu, cacheLock>>

\* ds.mu.Lock()
TIndexLock(t) ==
    /\ Goto(t, "index_lock", "index_body")
    /\ Lock(t)
    /\ UNCHANGED <<storeVars, txVars, disk, crashed, histVars, loader, th, saveMu, cacheLock>>

\* the body of CreateIndex and the deferred ds.mu.Unlock()
TIndexBody(t) ==
    /\ Finish(t, "index_body")
    /\ IF th[t].c.key \in DOMAIN indexes
       THEN UNCHANGED indexes
       ELSE \E index \in BuiltIndexes(data, th[t].c.key) :
                indexes' = Put(indexes, th[t].c.key, index)
    /\ Unlock(t)
    /\ UNCHANGED <<data, files, cache, dirty, txVars, disk, crashed, histVars, loader, saveMu, cacheLock>>

(* Merge *)

\* ds.cacheLock.RLock()
TMergeCacheRLock(t) ==
    /\ Goto(t, "merge_check", "merge_cached")
    /\ cacheLock.w = 0 /\ cacheLock.p = {}
    /\ cacheLock' = [cacheLock EXCEPT !.r = @ \cup {t}]
    /\ UNCHANGED <<storeVars, txVars, disk, crashed, histVars, loader, mu, th, saveMu>>

\* mutant of TMergeCached: on a miss the ds.cacheLock.RUnlock() is left out
TMergeCachedKeepsLock(t) ==
    /\ pc[t] = "merge_cached"
    /\ ~crashed
    /\ IF "merged" \in DOMAIN cache
       THEN /\ pc' = [pc EXCEPT ![t] = "idle"]
            /\ th' = [th EXCEPT ![t] = NoLocals]
            /\ cacheLock' = [cacheLock EXCEPT !.r = @ \ {t}]
            /\ RUnlock(t)
       ELSE /\ pc' = [pc EXCEPT ![t] = "merge_compute"]
            /\ UNCHANGED <<th, mu, cacheLock>>
    /\ UNCHANGED <<storeVars, txVars, disk, crashed, histVars, loader, saveMu, calls>>

\* the look-up of ds.cache["merged"] and ds.cacheLock.RUnlock(); on a hit Merge
\* returns, with the deferred ds.mu.RUnlock()
TMergeCached(t) ==
    /\ pc[t] = "merge_cached"
    /\ ~crashed
    /\ cacheLock' = [cacheLock EXCEPT !.r = @ \ {t}]
    /\ IF "merged" \in DOMAIN cache
       THEN /\ pc' = [pc EXCEPT ![t] = "idle"]
            /\ th' = [th EXCEPT ![t] = NoLocals]
            /\ RUnlock(t)
       ELSE /\ pc' = [pc EXCEPT ![t] = "merge_compute"]
            /\ UNCHANGED <<th, mu>>
    /\ UNCHANGED <<storeVars, txVars, disk, crashed, histVars, loader, saveMu, calls>>

\* ds.cacheLock.Lock()
TMergeCacheLock(t) ==
    /\ Goto(t, "merge_store", "merge_put")
    /\ CacheFree
    /\ cacheLock' = [cacheLock EXCEPT !.w = t, !.p = @ \ {t}]
    /\ UNCHANGED <<storeVars, txVars, disk, crashed, histVars, loader, mu, th, saveMu>>

\* ds.cache["merged"] = merged, ds.cacheLock.Unlock() and the deferred ds.mu.RUnlock()
TMergePut(t) ==
    /\ Finish(t, "merge_put")
    /\ cache' = Put(cache, "merged", th[t].merged)
    /\ cacheLock' = [cacheLock EXCEPT !.w = 0]
    /\ RUnlock(t)
    /\ UNCHANGED <<data, files, indexes, dirty, txVars, disk, crashed, histVars, loader, saveMu>>

(* Commit, from the end of its loop on *)

\* the merge of tx.files and tx.ds.dirty = true
TCommitDirty(t) ==
    /\ Goto(t, "commit_apply", "commit_invalidate")
    /\ th[t].i > Len(th[t].order)
    /\ files' = files \cup ovFiles[HandleOf(t)]
    /\ dirty' = TRUE
    /\ UNCHANGED <<data, indexes, cache, txVars, disk, crashed, histVars, loader, mu, th, saveMu, cacheLock>>

\* invalidateCache: ds.cacheLock.Lock()
TCommitInvalidateLock(t) ==
    /\ Goto(t, "commit_invalidate", "commit_clear")
    /\ CacheFree
    /\ cacheLock' = [cacheLock EXCEPT !.w = t, !.p = @ \ {t}]
    /\ UNCHANGED <<storeVars, txVars, disk, crashed, histVars, loader, mu, th, saveMu>>

\* invalidateCache: ds.cache = make(...), ds.cacheLock.Unlock(); then
\* tx.ds.txActive = false and tx.commit = true
TCommitClear(t) ==
    /\ Goto(t, "commit_clear", "commit_unlock_tx")
    /\ cache' = EmptyMap
    /\ cacheLock' = [cacheLock EXCEPT !.w = 0]
    /\ txActive' = FALSE
    /\ hstate' = [hstate EXCEPT ![HandleOf(t)] = "committed"]
    /\ UNCHANGED <<data, files, indexes, dirty, txData, txFiles, txMu, ovData, ovFiles, disk, crashed,
                   histVars, loader, mu, th, saveMu>>

LockNext ==
    \/ \E t \in Threads : TSet(t, LockId, DocBo, "a")
    \/ \E t \in Threads : TDelete(t, LockId)
    \/ \E t \in Threads : TWriteLock(t)
    \/ \E t \in Threads : TWriteApply(t)
    \/ \E t \in Threads : TInvalidateLock(t)
    \/ \E t \in Threads : TInvalidateClear(t)
    \/ \E t \in Threads : TWriteUnlock(t)
    \/ \E t \in Threads, key \in Paths : TCreateIndex(t, key)
    \/ \E t \in Threads : TIndexLock(t)
    \/ \E t \in Threads : TIndexBody(t)
    \/ \E t \in Threads : TGet(t, LockId)
    \/ \E t \in Threads, key \in Paths, value \in ConcQueryValues : TQuery(t, key, value)
    \/ \E t \in Threads : TReadRLock(t)
    \/ \E t \in Threads : TReadBody(t)
    \/ \E t \in Threads : TMerge(t)
    \/ \E t \in Threads : TMergeRLock(t)
    \/ \E t \in Threads : TMergeCacheRLock(t)
    \/ \E t \in Threads : TMergeCached(t)
    \/ \E t \in Threads : TMergeCompute(t)
    \/ \E t \in Threads : TMergeCacheLock(t)
    \/ \E t \in Threads : TMergePut(t)
    \/ \E t \in Threads : TSave(t)
    \/ \E t \in Threads : TSaveMu(t)
    \/ \E t \in Threads : TSaveRLock(t)
    \/ \E t \in Threads : TSaveSnapshot(t)
    \/ \E t \in Threads : TSaveWrite(t)
    \/ \E t \in Threads : TSaveLock(t)
    \/ \E t \in Threads : TSaveClear(t)
    \/ \E t \in Threads, h \in Handles : TCommit(t, h)
    \/ \E t \in Threads : TCommitLock(t)
    \/ \E t \in Threads : TCommitApply(t)
    \/ \E t \in Threads : TCommitDirty(t)
    \/ \E t \in Threads : TCommitInvalidateLock(t)
    \/ \E t \in Threads : TCommitClear(t)
    \/ \E t \in Threads : TCommitUnlockTx(t)
    \/ \E t \in Threads : TCommitUnlock(t)
    \/ \E t \in Threads, h \in Handles : TRollback(t, h)
    \/ \E t \in Threads : TRollbackLock(t)
    \/ \E t \in Threads : TRollbackActive(t)
    \/ \E t \in Threads : TRollbackData(t)
    \/ \E t \in Threads : TRollbackFiles(t)
    \/ \E t \in Threads : TMuWait(t)
    \/ \E t \in Threads : TCacheWait(t)

\* a step of the call thread t has in progress
LockStep(t) ==
    \/ TWriteLock(t) \/ TWriteApply(t) \/ TInvalidateLock(t) \/ TInvalidateClear(t)
    \/ TWriteUnlock(t)
    \/ TIndexLock(t) \/ TIndexBody(t)
    \/ TReadRLock(t) \/ TReadBody(t)
    \/ TMergeRLock(t) \/ TMergeCacheRLock(t) \/ TMergeCached(t) \/ TMergeCompute(t)
    \/ TMergeCacheLock(t) \/ TMergePut(t)
    \/ TSaveMu(t) \/ TSaveRLock(t) \/ TSaveSnapshot(t) \/ TSaveWrite(t) \/ TSaveLock(t)
    \/ TSaveClear(t)
    \/ TCommitLock(t) \/ TCommitApply(t) \/ TCommitDirty(t) \/ TCommitInvalidateLock(t)
    \/ TCommitClear(t) \/ TCommitUnlockTx(t) \/ TCommitUnlock(t)
    \/ TRollbackLock(t) \/ TRollbackActive(t) \/ TRollbackData(t) \/ TRollbackFiles(t)

\* the scheduler runs every call in progress that can take a step
LockSpec == LockInit /\ [][LockNext]_vars /\ \A t \in Threads : WF_vars(LockStep(t))

----------------------------------------------------------------------------
(* Field-path evaluation on nested documents *)

\* documents with scalars, sequences and mappings at several depths
PathDocs ==
    {Nil,
     StrV("Rome"),
     SeqV(<<StrV("Rome")>>),
     MapV([name |-> StrV("Rome")]),
     MapV([address |-> StrV("Rome")]),
     MapV([address |-> Nil]),
     MapV([address |-> SeqV(<<StrV("Rome")>>)]),
     MapV([address |-> MapV([city |-> StrV("Rome")])]),
     MapV([address |-> MapV([city |-> MapV([zip |-> StrV("Rome")])])])}

\* the paths "name", "city", "address", "address.city" and "address.city.zip"
PathKeys ==
    {<<"name">>, <<"city">>, <<"address">>, <<"address", "city">>, <<"address", "city", "zip">>}

\* the record the documents are stored under
PathId == <<"a", "1">>

\* getNestedValue(doc, key)
Evaluate(doc, key) ==
    /\ Callable
    /\ Called(Call("getNestedValue", NoId, doc, "", key, "", 0))
    /\ ret' = getNestedValue(doc, key)
    /\ UNCHANGED <<storeVars, txVars, disk, crashed, txPre, concVars>>

\* field paths evaluated directly and by Query's scan of the stored documents
PathNext ==
    \/ \E doc \in PathDocs, key \in PathKeys : Evaluate(doc, key)
    \/ \E doc \in PathDocs : Set(PathId, doc, "a")
    \/ \E key \in PathKeys : Query(key, "Rome")

PathSpec == Init /\ [][PathNext]_vars

----------------------------------------------------------------------------
(* Properties *)

\* C1: for every history of store-level Set, Delete and CreateIndex calls, every
\* indexed path and every query value, Query through the index returns the same
\* id -> document mapping as the full scan does on the same records.
C1_QueryIndexEqualsScan ==
    \A key \in DOMAIN indexes : \A value \in QueryValues :
        QueryIndex(key, value) = QueryScan(key, value)

\* C2: after a successful Save, every load of the directory yields exactly the
\* committed id -> document mapping held in memory.
C2_SaveReloadRoundTrip ==
    (last.op = "Save" /\ ret = "ok") => \A loaded \in Reloads(disk) : loaded = data

\* C4: after Rollback, the committed records, the shard-file set, every index
\* and the dirty flag are what they were when the transaction began, and Get of
\* any id returns its pre-transaction committed value.
C4_RollbackLeavesCommitted ==
    (last.op = "Rollback" /\ txPre # NoSnapshot) =>
        /\ Snapshot = txPre
        /\ \A id \in Ids : GetResult(id) = Lookup(txPre.data, id)

\* C4 witness: a transaction that staged a value differing from the committed
\* one has been rolled back.
C4_Witness ==
    /\ last.op = "Rollback"
    /\ txPre # NoSnapshot
    /\ \E id \in DOMAIN ovData[last.h] : ovData[last.h][id] # Lookup(data, id)

\* C5: a step of handle.Set or handle.Delete leaves the committed records, the
\* shard-file set, every index, the dirty flag and the merge cache unchanged.
C5_TxWritesOnlyOverlay ==
    [][last'.op \in {"tx.Set", "tx.Delete"} => UNCHANGED <<data, files, indexes, dirty, cache>>]_vars

\* C5 witness: handle.Set has staged a document that differs from the committed one.
C5_Witness ==
    /\ last.op = "tx.Set"
    /\ ovData[last.h][last.id] = last.doc
    /\ last.doc # Lookup(data, last.id)
    /\ DOMAIN data # {}

C7_BeginConflictWhileOpen ==
    (last.op = "BeginTransaction" /\ last.h = 0 /\ OpenHandles # {}) => ret = "Conflict"

\* C8: a BeginTransaction call made when every transaction begun so far has
\* been committed or rolled back succeeds, and the handle it returns has an
\* empty overlay, which is the overlay the store consults.
C8_BeginAfterClose ==
    [][(OpenHandles = {} /\ last'.op = "BeginTransaction") =>
            /\ ret' = "ok"
            /\ last'.h \in Handles
            /\ hstate'[last'.h] = "open"
            /\ ovData'[last'.h] = EmptyMap
            /\ ovFiles'[last'.h] = {}
            /\ ovData'[txData'] = EmptyMap]_vars

\* C8 witness: a second transaction has begun after the first one, which had
\* staged entries, was closed.
C8_Witness ==
    /\ last.op = "BeginTransaction"
    /\ ret = "ok"
    /\ \E g \in Handles : g # last.h /\ hstate[g] \in {"committed", "rolledback"} /\ ovData[g] # EmptyMap

\* the store-level calls an overlay stands for, applied in the given order from
\* position i on: Set for a replacement, Delete for a tombstone of a present id
RECURSIVE StoreLevelCalls(_, _, _, _)
StoreLevelCalls(s, ov, order, i) ==
    IF i > Len(order) THEN s
    ELSE LET id == order[i]
             t == IF ov[id] # Nil THEN StoreSet(s, id, ov[id], "default")
                  ELSE IF id \in DOMAIN s.data THEN StoreDelete(s, id)
                  ELSE s
         IN  StoreLevelCalls(t, ov, order, i + 1)

\* C10: the records and indexes Commit leaves are those that the store-level
\* Set and Delete calls for the staged entries leave, applied outside any
\* transaction in some order; the dirty flag is set and the merge cache empty.
C10_CommitEqualsStoreCalls ==
    [][last'.op = "Commit" =>
          \E order \in Orders(DOMAIN ovData[last'.h]) :
              LET s == StoreLevelCalls(Committed, ovData[last'.h], order, 1)
              IN  /\ data' = s.data
                  /\ indexes' = s.indexes
                  /\ dirty' = TRUE
                  /\ cache' = EmptyMap]_vars

\* a Commit has applied a part of its overlay: some staged entries, not all
CommitPartial ==
    \E t \in Threads : pc[t] = "commit_apply" /\ 1 < th[t].i /\ th[t].i <= Len(th[t].order)

\* C3: whenever a reader (Get, Query, Merge, Save's snapshot) holds the data
\* lock, no Commit has applied only a part of its overlay.
C3_CommitAtomic == mu.r # {} => ~CommitPartial

\* C3 witness: a Commit has applied one of two staged entries while a reader
\* waits for the data lock.
C3_Witness ==
    /\ CommitPartial
    /\ \E t \in Threads : pc[t] \in {"read_rlock", "merge_rlock", "save_rlock"}

HoldsAt(doc, key, val) == getNestedValue(doc, key) = [ok |-> TRUE, val |-> val]

\* C11: every entry value -> id of every index points at an id that is in the
\* committed records and whose committed document holds that value at the
\* index's path.
C11_NoDanglingIndex ==
    \A key \in DOMAIN indexes : \A val \in DOMAIN indexes[key] :
        /\ indexes[key][val] \in DOMAIN data
        /\ HoldsAt(data[indexes[key][val]], key, val)

\* C12: for every index and every committed record that holds a value at the
\* index's path, the index has an entry under that value, and the entry points
\* at a committed record that holds the value at the path.
C12_IndexComplete ==
    \A key \in DOMAIN indexes : \A id \in DOMAIN data :
        LET g == getNestedValue(data[id], key)
        IN  g.ok =>
              /\ g.val \in DOMAIN indexes[key]
              /\ indexes[key][g.val] \in DOMAIN data
              /\ HoldsAt(data[indexes[key][g.val]], key, g.val)

\* C13: a Delete call on an id that is neither in the committed records nor
\* staged by an open transaction returns NotFound and leaves the records, the
\* indexes, the dirty flag, the merge cache and every overlay unchanged.
C13_DeleteAbsentNotFound ==
    [][(/\ last'.op = "Delete"
        /\ last'.id \notin DOMAIN data
        /\ \A h \in 0..MaxTx : last'.id \notin DOMAIN ovData[h])
        => /\ ret' = "NotFound"
           /\ UNCHANGED <<data, files, indexes, dirty, cache, ovData, ovFiles>>]_vars

\* C14: what Get returns for an id that is in the committed records differs
\* from what Get returns for an id that is not, whatever document the present
\* id holds (the null document included).
C14_GetDistinguishesAbsent ==
    (last.op = "Get" /\ last.id \in DOMAIN data) =>
        \A absent \in Ids \ DOMAIN data : ret # GetResult(absent)

\* C15: when a store-level Set(id, doc, hint) returns, the committed record of
\* id is doc, the dirty flag is set, the merge cache is empty, and every index
\* holds for id the value doc has at its path and no other entry.
C15_SetTakesEffect ==
    [][last'.op = "Set" =>
          /\ last'.id \in DOMAIN data'
          /\ data'[last'.id] = last'.doc
          /\ dirty' = TRUE
          /\ cache' = EmptyMap
          /\ \A key \in DOMAIN indexes' :
                LET g == getNestedValue(last'.doc, key)
                IN  /\ g.ok => g.val \in DOMAIN indexes'[key] /\ indexes'[key][g.val] = last'.id
                    /\ \A val \in DOMAIN indexes'[key] :
                          indexes'[key][val] = last'.id => g.ok /\ g.val = val]_vars

\* C16: a store-level Set that repeats the call before it, with the same id,
\* document and shard hint, leaves the records, the shard-file set, the indexes,
\* the dirty flag, the merge cache and the overlays as the first call left them.
C16_SetIdempotent ==
    [][(last'.op = "Set" /\ again') =>
          UNCHANGED <<data, files, indexes, dirty, cache, ovData, ovFiles>>]_vars

\* C16 witness: outside a transaction, Set of a document that has a value at
\* an indexed path has been applied twice in a row.
C16_Witness ==
    /\ last.op = "Set"
    /\ again
    /\ ~txActive
    /\ \E key \in DOMAIN indexes : getNestedValue(last.doc, key).ok

\* the values the committed records hold at path key
ValuesAt(key) ==
    {getNestedValue(data[id], key).val : id \in {i \in DOMAIN data : getNestedValue(data[i], key).ok}}

C18_SaveCleanNoWrites ==
    [][(last'.op = "Save" /\ ~dirty) =>
          /\ ret' = "ok"
          /\ wrote' = {}
          /\ UNCHANGED <<storeVars, txVars, disk>>]_vars

\* C18 witness: Save has returned ok without a write on a store whose records
\* fill at least one shard file.
C18_Witness ==
    /\ last.op = "Save"
    /\ ret = "ok"
    /\ wrote = {}
    /\ SaveTargets(data, files) # {}

\* C19: a Save call made while the dirty flag is true clears the flag exactly
\* when it returns ok, and then it has written every non-empty shard group;
\* when a write fails it returns IOError, the flag stays set, a part only of
\* the groups has been written, the written files hold their new content and
\* every other file its old content.
C19_SaveClearsAfterAllWrites ==
    [][(last'.op = "Save" /\ dirty) =>
          LET targets == SaveTargets(data, files)
          IN  /\ UNCHANGED <<data, files, indexes, cache, txVars>>
              /\ (dirty' = FALSE) <=> (ret' = "ok")
              /\ ret' = "ok" => wrote' = targets
              /\ ret' = "IOError" => wrote' \subseteq targets /\ wrote' # targets
              /\ DOMAIN disk' = DOMAIN disk \cup wrote'
              /\ \A path \in DOMAIN disk' :
                    disk'[path] = IF path \in wrote'
                                  THEN MarshalFile(SaveGroups(data, files)[path])
                                  ELSE disk[path]]_vars

\* C19 witness: a Save has failed after it wrote one shard file of several.
C19_Witness ==
    /\ last.op = "Save"
    /\ ret = "IOError"
    /\ dirty
    /\ wrote # {}
    /\ wrote # SaveTargets(data, files)

\* C20: whenever the dirty flag is false, every committed record is in its
\* shard file on disk, with its current document.
C20_CleanMeansFlushed ==
    ~dirty =>
        \A id \in DOMAIN data :
            LET path == SaveGroupPath(id, files)
            IN  /\ path \in DOMAIN disk
                /\ id \in DOMAIN disk[path]
                /\ Unmarshal(disk[path][id]) = data[id]

\* C21: a Save call returns ok or IOError; it never ends in a runtime panic,
\* whatever shard group a record falls into.
C21_SaveNeverCrashes ==
    last.op = "Save" => ret \in {"ok", "IOError"}

\* the callers that hold ds.saveMu: past Save's lock and not yet returned
Saving == {t \in Threads : pc[t] \in {"save_rlock", "save_snapshot", "save_write", "save_lock", "save_clear"}}

\* C22: at most one Save call is between its taking of the save lock (before
\* the dirty check) and its return (after clearing the dirty flag); so no two
\* Save calls write shard files at the same time.
C22_SavesNeverInterleave == Cardinality(Saving) <= 1

\* C22 witness: one Save is writing its shard files while another Save call
\* waits for the save lock.
C22_Witness ==
    /\ \E t \in Threads : pc[t] = "save_write"
    /\ \E t \in Threads : pc[t] = "save_mu"

\* C23: whenever the merge cache holds a view, the view is what Merge computes
\* afresh from the committed records and the overlay the store consults.
C23_CacheIsFresh ==
    "merged" \in DOMAIN cache => cache["merged"] = MergedView

\* C24: a Merge call made while a transaction is open returns the view
\* computed from the records and the overlay as they are at the call.
C24_MergeRecomputesInTx ==
    [][(last'.op = "Merge" /\ txActive) => ret' = MergedView]_vars

\* the committed records layered with the overlay of the open transaction:
\* a staged replacement for its id, no entry for a tombstoned id, the committed
\* document for every other id
LayeredView ==
    IF ~txActive THEN data
    ELSE LET staged == {id \in DOMAIN Overlay : Overlay[id] # Nil}
             tombs == {id \in DOMAIN Overlay : Overlay[id] = Nil}
         IN  [id \in (DOMAIN data \cup staged) \ tombs |->
                 IF id \in staged THEN Overlay[id] ELSE data[id]]

\* C25: a Merge call that finds no cached view returns the committed records
\* layered with the open transaction's overlay (the committed records alone
\* when no transaction is open).
C25_MergeFullView ==
    [][(last'.op = "Merge" /\ "merged" \notin DOMAIN cache) => ret' = LayeredView]_vars

\* C26: a Get(id) that was called after the latest write to id returned, and
\* that runs its body before any further write to id returns, returns the
\* document of that write.
C26_GetSeesLatestWrite ==
    \A t \in Threads :
        (pc[t] = "read_body" /\ th[t].c.op = "Get" /\ th[t].c.doc = LatestWrite)
            => GetResult(th[t].c.id) = LatestWrite

\* C27: every load of the data directory yields the same id -> document
\* mapping, whatever the order in which the per-file workers merge.
C27_LoadDeterministic ==
    \A x, y \in Reloads(disk) : x = y

\* the committed records whose value at path key prints as value
Matching(key, value) ==
    {id \in DOMAIN data : /\ getNestedValue(data[id], key).ok
                          /\ Format(getNestedValue(data[id], key).val) = value}

\* C30: with no transaction open, Query(P, v) returns exactly the committed
\* records whose value at P is v, each with its committed document.
C30_QueryExact ==
    (last.op = "Query" /\ ~txActive) =>
        ret = [id \in Matching(last.key, last.value) |-> data[id]]

\* C29: every BeginTransaction call that waits for the transaction slot
\* eventually stops waiting, whether or not the holder of the slot ever
\* commits or rolls back.
C29_BeginEventuallyReturns ==
    \A t \in Threads : (pc[t] = "begin_lock") ~> (pc[t] # "begin_lock")

\* the store holds the records of the files that parsed and no others
LoadIsolated ==
    LET parsed == DOMAIN disk \ loader.failed
    IN  /\ \A path \in parsed : \A id \in RecordsOf(disk, path) :
              /\ id \in DOMAIN data
              /\ \E q \in parsed : /\ id \in RecordsOf(disk, q)
                                   /\ data[id] = Unmarshal(disk[q][id])
        /\ \A id \in DOMAIN data : \E q \in parsed : id \in RecordsOf(disk, q)

\* C28: the load call returns, and stays returned; when the directory scan
\* succeeded it returns ok, every worker has ended, every record of every file
\* that parsed is in the store and no record of a failed file is.
C28_LoadIsolatesFailures ==
    <>[](/\ loader.pc = "returned"
         /\ loader.i > 0 =>
               /\ loader.result = "ok"
               /\ \A path \in DOMAIN loader.w : loader.w[path] = "done"
               /\ LoadIsolated)

\* C28 witness: the load has returned ok after one file failed and another
\* was merged.
C28_Witness ==
    /\ loader.pc = "returned"
    /\ loader.result = "ok"
    /\ loader.failed # {}
    /\ DOMAIN data # {}

\* the nodes of a document: the document and the nodes of its mapping values
RECURSIVE SubValues(_)
SubValues(v) ==
    {v} \cup (IF v.k = "map" THEN UNION {SubValues(v.m[f]) : f \in DOMAIN v.m} ELSE {})

\* v is the node of doc that path key addresses: there is a chain of nodes from
\* doc to v in which every node but the last is a mapping that has the next
\* segment of the path as a field, the next node being that field's value
Resolves(doc, key, v) ==
    \E chain \in [0..Len(key) -> SubValues(doc)] :
        /\ chain[0] = doc
        /\ chain[Len(key)] = v
        /\ \A i \in 1..Len(key) :
              /\ chain[i - 1].k = "map"
              /\ key[i] \in DOMAIN chain[i - 1].m
              /\ chain[i] = chain[i - 1].m[key[i]]

\* C31: evaluating a path on a document never crashes; when the path addresses
\* a node of the document the evaluation returns that node, and when a segment
\* is missing or the path goes through a scalar or a sequence it reports the
\* value absent, the record then gets no index entry on the path, and a Query
\* on the path returns no record whose document the path does not address.
C31_PathEvaluation ==
    /\ ~crashed
    /\ last.op = "getNestedValue" =>
          LET reached == {v \in SubValues(last.doc) : Resolves(last.doc, last.key, v)}
          IN  IF reached = {}
              THEN /\ ret = [ok |-> FALSE, val |-> Nil]
                   /\ UpdateIndex(EmptyMap, PathId, last.doc, last.key) = EmptyMap
              ELSE /\ ret.ok
                   /\ reached = {ret.val}
    /\ last.op = "Query" =>
          \A id \in DOMAIN ret :
              \E v \in SubValues(ret[id]) :
                  Resolves(ret[id], last.key, v) /\ Format(v) = last.value

\* C31 witness: a path of two segments was evaluated on a document whose first
\* segment holds a sequence, and the value was reported absent.
C31_Witness ==
    /\ last.op = "getNestedValue"
    /\ Len(last.key) = 2
    /\ last.doc.k = "map"
    /\ last.key[1] \in DOMAIN last.doc.m
    /\ last.doc.m[last.key[1]].k = "seq"
    /\ ~ret.ok

\* a Commit has applied entries of its overlay and has not yet merged its
\* files and set the dirty flag: the records are those after the Commit, the
\* shard-file set the one before it
MidCommit == \E u \in Threads : pc[u] = "commit_apply" /\ th[u].i > 1

\* C32: the copies a Save takes are the records and the shard-file set of the
\* store at one moment at which no Commit is part-way through, and every file
\* the Save writes holds the group of exactly those copies.
C32_SaveSnapshotConsistent ==
    [][\A t \in Threads :
          /\ (pc[t] = "save_snapshot" /\ pc'[t] = "save_write") =>
                /\ th'[t].dataCopy = data
                /\ th'[t].filesCopy = files
                /\ ~MidCommit
          /\ (pc[t] = "save_write" /\ disk' # disk) =>
                \A path \in DOMAIN disk' :
                    (path \notin DOMAIN disk \/ disk'[path] # disk[path]) =>
                        /\ path \in th[t].filesCopy
                        /\ disk'[path] =
                              MarshalFile(SaveGroups(th[t].dataCopy, th[t].filesCopy)[path])]_vars

\* C32 witness: a Save has written all its files while a concurrent writer
\* changed the records after the Save took its copies, and the files hold the
\* groups of the copies.
C32_Witness ==
    \E t \in Threads :
        /\ pc[t] = "save_lock"
        /\ th[t].dataCopy # data
        /\ SaveTargets(th[t].dataCopy, th[t].filesCopy) # {}
        /\ \A path \in SaveTargets(th[t].dataCopy, th[t].filesCopy) :
              /\ path \in DOMAIN disk
              /\ disk[path] = MarshalFile(SaveGroups(th[t].dataCopy, th[t].filesCopy)[path])

\* what Query(key, value) returns when no transaction is open: the index's
\* entries under the value when the path is indexed, else the matching records
CommittedQuery(key, value) ==
    IF key \in DOMAIN indexes
    THEN LET index == indexes[key]
             hits == {id \in Ids : \E val \in DOMAIN index :
                         index[val] = id /\ Format(val) = value}
         IN  [id \in hits |-> Lookup(data, id)]
    ELSE [id \in Matching(key, value) |-> data[id]]

\* C33: a Query made while a transaction is open returns every record the
\* transaction has not staged exactly when, and with the document, it would
\* return it with no transaction open.
C33_QueryUnstagedUnchanged ==
    (last.op = "Query" /\ txActive) =>
        \A id \in Ids \ DOMAIN Overlay :
            /\ id \in DOMAIN ret <=> id \in DOMAIN CommittedQuery(last.key, last.value)
            /\ id \in DOMAIN ret => ret[id] = CommittedQuery(last.key, last.value)[id]

\* C34: a Commit or Rollback on a handle that is already committed or rolled
\* back does not crash, leaves the committed records, shard-file set and
\* indexes as they are, and leaves the transaction slot and the active flag of
\* a transaction that is open at the time as they are.
C34_ClosedHandleHarmless ==
    [][(/\ last'.op \in {"Commit", "Rollback"}
        /\ hstate[last'.h] \in {"committed", "rolledback"}) =>
            /\ ~crashed'
            /\ data' = data /\ files' = files /\ indexes' = indexes
            /\ OpenHandles # {} => (txMu' = txMu /\ txActive' = txActive)]_vars

\* C35: whenever a handle is open (its BeginTransaction has returned and
\* neither Commit nor Rollback was called on it), the store's active flag is
\* set and the overlay and file set the store references are the handle's.
C35_OverlayIsOpenHandles ==
    \A h \in Handles :
        hstate[h] = "open" => (txActive /\ txData = h /\ txFiles = h)

\* C36: every step that changes the active flag, the store's overlay or file-set
\* reference, or the entries of an overlay is a step of a call that holds the
\* data lock exclusively, and no step changes an overlay while a reader holds
\* the data lock shared.
C36_NoRaceOnTxState ==
    [][/\ <<txActive, txData, txFiles, ovData, ovFiles>>' # <<txActive, txData, txFiles, ovData, ovFiles>> =>
             \E t \in Threads :
                 /\ pc'[t] # pc[t] \/ th'[t] # th[t]
                 /\ mu.w = t \/ (pc[t] = "write_lock" /\ MuFree)
       /\ (ovData' # ovData \/ ovFiles' # ovFiles) => mu.r = {}]_vars

\* C37: every call in progress eventually returns: no set of callers waits
\* for the data lock, the cache lock, the save lock and the transaction gate
\* for ever.
C37_CallsReturn ==
    \A t \in Threads : (pc[t] # "idle") ~> (pc[t] = "idle")

\* C37 witness: one caller holds the data lock and the cache lock inside
\* invalidateCache while the other waits for the data lock holding the save lock.
C37_Witness ==
    \E t, u \in Threads :
        /\ mu.w = t /\ cacheLock.w = t
        /\ pc[u] = "save_lock" /\ saveMu = u /\ u \in mu.p

====
